---------------------------- MODULE Spec2Model ----------------------------
(***************************************************************************)
(* A model of the batch lifecycle (batch_manager.py), of the RAG assistant *)
(* (backend/rag_assistant.py, vector_search.py), of the server's handlers  *)
(* (backend/api.py) and of the setup action (backend/main.py) of           *)
(* KnowledgeBase_Manager.                                                  *)
(*                                                                         *)
(* Spec            wait_for_batch: one caller polling a provider batch     *)
(*                 under a wall clock (seconds), with poll latency and     *)
(*                 sleeps.                                                 *)
(* SpecConcurrent  two callers of wait_for_batch on the same batch, the    *)
(*                 provider never leaving a terminal status.               *)
(* SpecBatch       create_file_batch and cancel_batch against the          *)
(*                 provider.                                               *)
(* SpecRAG         RAGAssistant.answer / answer_with_history over a        *)
(*                 search response.                                        *)
(* SpecQuery       query_rag of backend/api.py over a search response and  *)
(*                 the filename lookups.                                   *)
(* SpecApp         the handlers of backend/api.py that keep AppState, in   *)
(*                 any order, with any outcome at the provider.            *)
(* SpecServe       the handlers that set the client and the vector store   *)
(*                 id, and query_rag with and without an id.               *)
(* SpecQueries     two calls of query_rag at once.                         *)
(* SpecSetup       action_setup of backend/main.py and the saved config.   *)
(***************************************************************************)
EXTENDS Integers, Sequences, FiniteSets, TLC

\* ------------------------------------------------------------------ bounds
MaxTime == 3
MaxTimeout == 2
MaxInterval == 1
MaxLatency == 2
MaxPolls == 2
MaxFiles == 2
MaxHits == 2
MaxUploads == 2
MaxStores == 2

\* config.py: the default of max_context_chars.
MAX_CONTEXT_CHARS == 8000

\* backend/api.py, query_rag: the hits it looks at, the characters of context
\* it keeps, the characters of context it returns.
TOP_CHUNKS == 10
QUERY_CONTEXT_CHARS == 8000
EXCERPT_CHARS == 500

\* ------------------------------------------------------- provider's batches
\* The statuses a VectorStoreFileBatch can report: the four the module's
\* docstring names, and "queued" for any other status, which the loop of
\* wait_for_batch treats like "in_progress".
Statuses == {"queued", "in_progress", "completed", "failed", "cancelled"}

TerminalStatuses == {"completed", "failed", "cancelled"}

\* batch.file_counts: how many files are in each state.
FileCounts ==
    { c \in [completed : 0..MaxFiles, in_progress : 0..MaxFiles,
             failed : 0..MaxFiles, cancelled : 0..MaxFiles] :
        c.completed + c.in_progress + c.failed + c.cancelled = MaxFiles }

\* The local name `batch` of wait_for_batch before its first assignment.
Unbound == [status |-> "unbound",
            file_counts |-> [completed |-> 0, in_progress |-> 0,
                             failed |-> 0, cancelled |-> 0]]

Waiters == {1, 2}

VARIABLES
    now,              \* time.time(), in seconds
    stable,           \* the provider never changes a batch once it is terminal
    provider,         \* the status of the batch as the provider holds it
    pc,               \* per call of wait_for_batch: where it is
    timeout_seconds,  \* per call: its argument
    poll_interval,    \* per call: its argument
    start_time,       \* per call: its local start_time
    wake,             \* per call: when the pending poll or sleep returns
    batch,            \* per call: its local batch, the last poll's answer
    outcome,          \* per call: what it returned or raised
    polls,            \* per call: polls answered so far
    sleeps,           \* per call: sleeps started so far
    raised,           \* per call: the error a poll of it raised, if any
    create_args,      \* create_file_batch: the arguments of the last call
    create_request,   \* create_file_batch: what it sent to the provider
    create_outcome,   \* create_file_batch: what it returned or raised
    cancel_answer,    \* cancel_batch: the status the provider answered with
    cancel_outcome,   \* cancel_batch: what it returned or raised
    max_context_chars,\* RAGAssistant: self.max_context_chars
    rag_pc,           \* RAGAssistant: where the call under way stands
    rag_call,         \* RAGAssistant: the method last called, its arguments
    search_results,   \* the search response of that call: its "data"
    hit_texts,        \* what extract_text_from_hit gave for each hit reached
    rag_snippets,     \* the snippets extract_context built in that call
    rag_context,      \* the context search() gave that call
    rag_messages,     \* the messages that call sent to chat.completions
    rag_generated,    \* whether that call invoked chat.completions.create
    rag_response,     \* what that call returned or raised
    query_pc,         \* query_rag: where the call under way stands
    query_request,    \* query_rag: the request of the last call
    query_data,       \* query_rag: search_data["data"]
    query_texts,      \* query_rag: txt of each of the hits looked at
    query_chunks,     \* query_rag: chunks
    query_sources,    \* query_rag: sources
    query_context,    \* query_rag: context
    query_messages,   \* query_rag: the messages sent to chat.completions
    query_generated,  \* query_rag: whether chat.completions.create was called
    query_response,   \* query_rag: what the call returned or raised
    query_failed,     \* query_rag: the files whose lookup raised in the call
    query_search,     \* query_rag: the search request the call sent
    client,           \* AppState.client
    api_key,          \* AppState.api_key
    vector_store_id,  \* AppState.vector_store_id
    uploaded_files,   \* AppState.uploaded_files
    files_created,    \* provider: how many files it was given so far
    stores_created,   \* provider: how many vector stores it created so far
    store_files,      \* provider: the file ids attached to each vector store
    app_call,         \* backend/api.py: the handler last called, its arguments
    app_requests,     \* backend/api.py: the provider calls that call made
    app_response,     \* backend/api.py: what that call returned or raised
    setup_pc,         \* action_setup: where the call stands
    setup_vs_id,      \* action_setup: vs_id
    setup_file_ids,   \* action_setup: file_ids
    setup_outcome,    \* action_setup: what it returned or raised
    saved_config      \* main.py: the content of CONFIG_FILE

\* The arguments and locals of the calls of wait_for_batch.
callVars == <<pc, timeout_seconds, poll_interval, start_time, wake, batch,
              outcome, polls, sleeps, raised>>

waitVars == <<now, stable, provider, callVars>>

\* What the calls of create_file_batch and cancel_batch leave behind.
batchVars == <<create_args, create_request, create_outcome, cancel_answer,
               cancel_outcome>>

NoOutcome == [kind |-> "none"]

\* What the provider's client raises: the batch or the store is unknown, or
\* the call itself failed.
ProviderErrors == {"NotFoundError", "APIConnectionError"}

\* What a call of RAGAssistant.answer or answer_with_history leaves behind.
ragVars == <<max_context_chars, rag_pc, rag_call, search_results, hit_texts,
             rag_snippets, rag_context, rag_messages, rag_generated,
             rag_response>>

\* What a call of query_rag (backend/api.py) leaves behind.
queryVars == <<query_pc, query_request, query_data, query_texts, query_chunks,
               query_sources, query_context, query_messages, query_generated,
               query_response, query_failed, query_search>>

\* The fields of AppState (backend/api.py).
appState == <<client, api_key, vector_store_id, uploaded_files>>

\* AppState, the provider's files and stores, and what the last handler
\* call did.
appVars == <<appState, files_created, stores_created, store_files, app_call,
             app_requests, app_response>>

\* action_setup (backend/main.py) and the saved config.
setupVars == <<setup_pc, setup_vs_id, setup_file_ids, setup_outcome,
               saved_config>>

\* ------------------------------------------------- strings and their parts
\* A string is the sequence of its characters, each a one-character string
\* (i_acute stands for the one character it names).
Whitespace == {" ", "\n", "\t"}

Digits == <<"0", "1", "2", "3", "4", "5", "6", "7", "8", "9">>

\* str(n) for 0 <= n < 100.
IntStr(n) ==
    IF n < 10 THEN <<Digits[n + 1]>>
    ELSE <<Digits[(n \div 10) + 1], Digits[(n % 10) + 1]>>

\* f"{score:.2f}" for a score given in hundredths.
Format2f(hundredths) ==
    IntStr(hundredths \div 100) \o <<".">>
      \o <<Digits[((hundredths % 100) \div 10) + 1],
           Digits[(hundredths % 10) + 1]>>

\* str.strip(): leading and trailing whitespace removed.
RECURSIVE LStrip(_)
LStrip(str) ==
    IF str # <<>> /\ Head(str) \in Whitespace THEN LStrip(Tail(str)) ELSE str

RECURSIVE RStrip(_)
RStrip(str) ==
    IF str # <<>> /\ str[Len(str)] \in Whitespace
    THEN RStrip(SubSeq(str, 1, Len(str) - 1))
    ELSE str

Strip(str) == RStrip(LStrip(str))

\* sep.join(strs).
RECURSIVE Join(_, _)
Join(sep, strs) ==
    IF strs = <<>> THEN <<>>
    ELSE IF Len(strs) = 1 THEN strs[1]
    ELSE strs[1] \o sep \o Join(sep, Tail(strs))

\* str[:n] for n >= 0.
PrefixOneMore(str, n) ==
    SubSeq(str, 1, IF n + 1 < Len(str) THEN n + 1 ELSE Len(str))

Prefix(str, n) == SubSeq(str, 1, IF n < Len(str) THEN n ELSE Len(str))

\* ------------------------------------------------------ search responses
\* A key a dict does not hold.
Missing == <<"?missing">>

\* What an operation that raised TypeError leaves in place of its string.
TypeErrorRaised == <<"?TypeError">>

FileNames == {<<"a", ".", "m", "d">>}

\* The parts of a hit's "content": {"text": <str>}, {"text": {"value":
\* <str>}} and {"type": "text", "value": <str>}.
PartText == [shape : {"text"}, str : {<<"x">>, <<" ">>}]
PartNested == [shape : {"text_value"}, str : {<<"y">>}]
PartTyped == [shape : {"typed_value"}, str : {<<"z">>}]
Parts == PartText \cup PartNested \cup PartTyped

\* A text longer than the excerpt query_rag hands back.
LongText == [k \in 1..EXCERPT_CHARS + 1 |-> "x"]

\* The contents a hit may carry: none, every one part, two texts, and a
\* long text.
Contents ==
    {<<>>} \cup {<<part>> : part \in Parts}
      \cup {<<[shape |-> "text", str |-> <<"x">>],
              [shape |-> "text", str |-> <<"x">>]>>,
            <<[shape |-> "text", str |-> LongText]>>}

\* A hit: its "filename" (or none), its "score" in hundredths, its
\* "content".
Hits == [filename : FileNames \cup {Missing}, score : {90}, content : Contents]

\* The "data" of a search response: at most MaxHits hits, in rank order.
SearchData == UNION {[1..n -> Hits] : n \in 0..MaxHits}

\* ----------------------------------------------------------- vector_search
\* Lines 187-198 of vector_search.py: extract_text_from_hit. A dict part
\* with a "text" key contributes part["text"], whatever that is; the elif
\* asks for "text" again and never adds a part. Joining raises TypeError
\* when a contribution is no string.
TextsOfParts(parts) ==
    SelectSeq(parts, LAMBDA part : part.shape \in {"text", "text_value"})

extract_text_from_hit(hit) ==
    LET texts == TextsOfParts(hit.content) IN
    IF \E i \in 1..Len(texts) : texts[i].shape = "text_value"
    THEN TypeErrorRaised
    ELSE Strip(Join(<<"\n">>, [i \in 1..Len(texts) |-> texts[i].str]))

\* Line 209: the default separator.
Separator == <<"\n", "\n", "-", "-", "-", "\n", "\n">>

\* Line 258: the marker appended to a truncated context.
TruncationMarker ==
    <<"\n", "\n", "[", ".", ".", ".", " ", "t", "r", "u", "n", "c", "a",
      "d", "o", " ", "p", "o", "r", " ", "l", "i_acute", "m", "i", "t",
      "e", " ", "d", "e", " ", "t", "o", "k", "e", "n", "s", " ", ".", ".",
      ".", "]">>

\* Lines 246-250: the labeled block of hit i.
Snippet(i, hit, text) ==
    <<"[", "K", "B", "#">> \o IntStr(i) \o <<" ", "-", " ">>
      \o (IF hit.filename = Missing
          THEN <<"u", "n", "k", "n", "o", "w", "n">> ELSE hit.filename)
      \o <<" ", "(", "s", "c", "o", "r", "e", ":", " ">>
      \o Format2f(hit.score) \o <<")", "]", "\n">> \o text

\* Lines 238-252: one block per hit with text, numbered by the hit's place
\* in the response.
RECURSIVE Snippets(_, _)
Snippets(data, i) ==
    IF i > Len(data) THEN <<>>
    ELSE LET text == extract_text_from_hit(data[i]) IN
         IF text = <<>> THEN Snippets(data, i + 1)
         ELSE <<Snippet(i, data[i], text)>> \o Snippets(data, i + 1)

\* The hits the loop of lines 238-252 reaches: all of them, or those up to
\* the first one whose extraction raises.
RECURSIVE Reached(_)
Reached(data) ==
    IF data = <<>> THEN <<>>
    ELSE IF extract_text_from_hit(Head(data)) = TypeErrorRaised
    THEN <<Head(data)>>
    ELSE <<Head(data)>> \o Reached(Tail(data))

\* Line 239, for each hit reached.
TextsOfHits(data) ==
    [i \in 1..Len(Reached(data)) |-> extract_text_from_hit(data[i])]

\* The snippets appended before the loop ended or raised.
SnippetsBuilt(data) ==
    LET reached == Reached(data) IN
    IF reached # <<>>
         /\ extract_text_from_hit(reached[Len(reached)]) = TypeErrorRaised
    THEN Snippets(SubSeq(reached, 1, Len(reached) - 1), 1)
    ELSE Snippets(reached, 1)

\* Lines 257-258: the joined context cut to max_chars, the marker appended.
TruncateDroppingMarker(context, max_chars) ==
    IF Len(context) > max_chars THEN Prefix(context, max_chars) ELSE context

Truncate(context, max_chars) ==
    IF Len(context) > max_chars
    THEN Prefix(context, max_chars) \o TruncationMarker
    ELSE context

\* Lines 238-260: extract_context with include_source and the separator at
\* their defaults.
extract_context(data, max_chars) ==
    IF \E i \in 1..Len(data) : extract_text_from_hit(data[i]) = TypeErrorRaised
    THEN TypeErrorRaised
    ELSE Truncate(Join(Separator, Snippets(data, 1)), max_chars)

\* ------------------------------------------------------------ RAGAssistant
\* self.system_prompt, one token for the whole text.
SystemPrompt == <<"DEFAULT_SYSTEM_PROMPT">>

\* The text the model replies with.
Reply == <<"reply">>

\* The answer backend/api.py gives for an empty context (one token for the
\* whole text); rag_assistant.py holds no such text.
NoInfoAnswer == <<"no relevant information found">>

Queries == {<<"q">>}

\* additional_context: None, or a text.
AdditionalContexts == {Missing, <<"n", "o", "t", "e">>}

\* conversation_history: no turn yet, or a question and its answer.
Histories ==
    {<<>>,
     <<[role |-> "user", content |-> <<"p">>],
       [role |-> "assistant", content |-> <<"r">>]>>}

KBContextHeader ==
    <<"K", "N", "O", "W", "L", "E", "D", "G", "E", " ", "B", "A", "S", "E",
      " ", "C", "O", "N", "T", "E", "X", "T", ":", "\n">>

AdditionalContextHeader ==
    <<"A", "D", "D", "I", "T", "I", "O", "N", "A", "L", " ", "C", "O", "N",
      "T", "E", "X", "T", ":", "\n">>

\* Lines 209-212 of rag_assistant.py: one source per hit, "unknown" for a
\* hit without filename.
AnswerSources(data) ==
    [i \in 1..Len(data) |->
       IF data[i].filename = Missing
       THEN <<"u", "n", "k", "n", "o", "w", "n">> ELSE data[i].filename]

\* Line 287: one source per hit, "" for a hit without filename.
HistorySources(data) ==
    [i \in 1..Len(data) |->
       IF data[i].filename = Missing THEN <<>> ELSE data[i].filename]

\* Lines 215-234: the system prompt, the context when it is not empty, the
\* additional context when given, the question.
AnswerMessages(query, context, additional_context) ==
    <<[role |-> "system", content |-> SystemPrompt]>>
      \o (IF context # <<>>
          THEN <<[role |-> "system", content |-> KBContextHeader \o context]>>
          ELSE <<>>)
      \o (IF additional_context \notin {Missing, <<>>}
          THEN <<[role |-> "system",
                  content |-> AdditionalContextHeader \o additional_context]>>
          ELSE <<>>)
      \o <<[role |-> "user", content |-> query]>>

\* Lines 290-299: the system prompt, the context, the history, the question.
HistoryMessagesQuestionFirst(query, context, conversation_history) ==
    <<[role |-> "system", content |-> SystemPrompt],
      [role |-> "system", content |-> KBContextHeader \o context],
      [role |-> "user", content |-> query]>>
      \o conversation_history

HistoryMessages(query, context, conversation_history) ==
    <<[role |-> "system", content |-> SystemPrompt],
      [role |-> "system", content |-> KBContextHeader \o context]>>
      \o conversation_history
      \o <<[role |-> "user", content |-> query]>>

\* Lines 124-147: the values of max_context_chars an assistant is built
\* with: none, less than one block, the default.
MaxContextChars == {0, 30, MAX_CONTEXT_CHARS}

\* The messages of the call under way, lines 215-234 or 290-299.
MessagesOf(call, context) ==
    IF call.method = "answer"
    THEN AnswerMessages(call.query, context, call.additional_context)
    ELSE HistoryMessages(call.query, context, call.conversation_history)

\* Lines 209-212 or 287.
SourcesOf(call, data) ==
    IF call.method = "answer" THEN AnswerSources(data)
    ELSE HistorySources(data)

\* A call begins: nothing is left of the call before it, and the search
\* request of line 204 / 282 goes out.
BeginCall ==
    /\ rag_pc \in {"idle", "done"}
    /\ rag_pc' = "searching"
    /\ search_results' = <<>>
    /\ hit_texts' = <<>>
    /\ rag_snippets' = <<>>
    /\ rag_context' = <<>>
    /\ rag_messages' = <<>>
    /\ rag_generated' = FALSE
    /\ rag_response' = NoOutcome
    /\ UNCHANGED <<waitVars, batchVars, queryVars, appVars, setupVars,
                   max_context_chars>>

\* Lines 174-204: RAGAssistant.answer is called.
answer(query, additional_context) ==
    /\ BeginCall
    /\ rag_call' = [method |-> "answer", query |-> query,
                    additional_context |-> additional_context]

\* Lines 254-282: RAGAssistant.answer_with_history is called.
answer_with_history(query, conversation_history) ==
    /\ BeginCall
    /\ rag_call' = [method |-> "answer_with_history", query |-> query,
                    conversation_history |-> conversation_history]

\* Lines 166-172, then 209-241 or 287-304: the search answers with `data`;
\* the context is extracted, the messages are built and the generation
\* request goes out, whatever the context is.
search_vector_store(data) ==
    /\ rag_pc = "searching"
    /\ search_results' = data
    /\ hit_texts' = TextsOfHits(data)
    /\ rag_snippets' = SnippetsBuilt(data)
    /\ rag_context' = extract_context(data, max_context_chars)
    /\ IF rag_context' = TypeErrorRaised
       THEN /\ rag_pc' = "done"
            /\ rag_messages' = <<>>
            /\ rag_generated' = FALSE
            /\ rag_response' = [kind |-> "error", error |-> "TypeError"]
       ELSE /\ rag_pc' = "generating"
            /\ rag_messages' = MessagesOf(rag_call, rag_context')
            /\ rag_generated' = TRUE
            /\ rag_response' = NoOutcome
    /\ UNCHANGED <<waitVars, batchVars, queryVars, appVars, setupVars,
                   max_context_chars, rag_call>>

\* Line 166: the search raises, and so does the call.
search_vector_store_raises(error) ==
    /\ rag_pc = "searching"
    /\ rag_pc' = "done"
    /\ rag_response' = [kind |-> "error", error |-> error]
    /\ UNCHANGED <<waitVars, batchVars, queryVars, appVars, setupVars,
                   max_context_chars, rag_call,
                   search_results, hit_texts, rag_snippets, rag_context,
                   rag_messages, rag_generated>>

\* Lines 237-252 or 301-315: the generation answers, the call returns.
chat_completion(reply) ==
    /\ rag_pc = "generating"
    /\ rag_pc' = "done"
    /\ rag_response' = [kind |-> "RAGResponse", answer |-> reply,
                        context |-> rag_context,
                        sources |-> SourcesOf(rag_call, search_results),
                        query |-> rag_call.query]
    /\ UNCHANGED <<waitVars, batchVars, queryVars, appVars, setupVars,
                   max_context_chars, rag_call,
                   search_results, hit_texts, rag_snippets, rag_context,
                   rag_messages, rag_generated>>

\* Lines 237-241 or 301-304: the generation raises, and so does the call.
chat_completion_raises(error) ==
    /\ rag_pc = "generating"
    /\ rag_pc' = "done"
    /\ rag_response' = [kind |-> "error", error |-> error]
    /\ UNCHANGED <<waitVars, batchVars, queryVars, appVars, setupVars,
                   max_context_chars, rag_call,
                   search_results, hit_texts, rag_snippets, rag_context,
                   rag_messages, rag_generated>>

\* ------------------------------------------------- backend/api.py query_rag
\* The files the provider holds, each with the filename it was uploaded as.
StoredFilename ==
    [file_id \in {"file-1", "file-2", "file-3"} |->
       IF file_id = "file-3" THEN <<"b", ".", "m", "d">>
       ELSE <<"a", ".", "m", "d">>]

StoredFileIds == DOMAIN StoredFilename

\* A hit of the plain kind: of a stored file, with its filename, one text.
PlainHit(file_id) ==
    [file_id |-> file_id, filename |-> StoredFilename[file_id],
     content |-> <<[shape |-> "text", str |-> <<"x">>]>>]

\* hit.get("file_id") of a hit without file id.
NoFileId == "None"

\* A hit with neither text nor file id.
EmptyHit == [file_id |-> NoFileId, filename |-> Missing, content |-> <<>>]

\* The hits of a search response: the plain hit of every file, the hit of
\* one file with every content, a hit without "filename", a hit without
\* "file_id" and "filename".
QueryHits ==
    {PlainHit(file_id) : file_id \in StoredFileIds}
      \cup {[PlainHit("file-1") EXCEPT !.content = content] :
              content \in Contents}
      \cup {[PlainHit("file-1") EXCEPT !.filename = Missing],
            [EmptyHit EXCEPT !.content = <<[shape |-> "text",
                                             str |-> <<"x">>]>>]}

\* The "data" of a search response: at most MaxHits hits, alone or after
\* TOP_CHUNKS - 1 or TOP_CHUNKS hits without text.
QuerySearchData ==
    {[i \in 1..pad |-> EmptyHit] \o data :
       pad \in {0, TOP_CHUNKS - 1, TOP_CHUNKS},
       data \in UNION {[1..n -> QueryHits] : n \in 0..MaxHits}}

\* Lines 597-608: the text a part contributes, by the first case it matches
\* (A, B, C), or nothing.
QueryTextsOfParts(parts) ==
    LET known == SelectSeq(parts, LAMBDA part :
                     part.shape \in {"text", "text_value", "typed_value"})
    IN [i \in 1..Len(known) |-> known[i].str]

\* Line 609: each text stripped, the empty ones left out.
RECURSIVE StrippedNonEmpty(_)
StrippedNonEmpty(texts) ==
    IF texts = <<>> THEN <<>>
    ELSE IF Strip(Head(texts)) = <<>> THEN StrippedNonEmpty(Tail(texts))
    ELSE <<Strip(Head(texts))>> \o StrippedNonEmpty(Tail(texts))

\* Lines 593-609: the extract_text_from_hit nested in query_rag.
query_extract_text_from_hit(hit) ==
    Strip(Join(<<"\n">>, StrippedNonEmpty(QueryTextsOfParts(hit.content))))

\* Line 616: search_data.get("data", [])[:10].
TopChunks(data) == Prefix(data, TOP_CHUNKS)

\* Line 621: the chunk of hit i.
Chunk(i, txt) ==
    <<"[", "C", "h", "u", "n", "k", " ", "#">> \o IntStr(i)
      \o <<"]", "\n">> \o txt

\* Line 618, for each hit looked at.
QueryTexts(hits) ==
    [i \in 1..Len(hits) |-> query_extract_text_from_hit(hits[i])]

\* Lines 616-621: one chunk per hit with text among the hits looked at,
\* numbered by the hit's place; `texts` are the texts of the hits.
RECURSIVE Chunks(_, _)
Chunks(texts, i) ==
    IF i > Len(texts) THEN <<>>
    ELSE IF texts[i] = <<>> THEN Chunks(texts, i + 1)
    ELSE <<Chunk(i, texts[i])>> \o Chunks(texts, i + 1)

\* Line 628: whether a filename looked up is appended to sources.
AppendsSource(filename, sources) ==
    \A k \in 1..Len(sources) : sources[k] # filename

\* Lines 616-631: the sources. A hit with text and a file id not looked up
\* yet has its file retrieved; the filename of the file, when new, is
\* appended. A lookup that raises caches and appends nothing. `failing` are
\* the files whose lookup raises in this call, `i` is the hit the loop is
\* at, `texts` are the texts of the hits.
RECURSIVE Sources(_, _, _, _, _, _)
Sources(hits, texts, i, failing, file_id_to_name, sources) ==
    IF i > Len(hits) THEN sources
    ELSE LET file_id == hits[i].file_id IN
         IF texts[i] = <<>>
              \/ file_id = NoFileId
              \/ file_id \in file_id_to_name
              \/ file_id \in failing
         THEN Sources(hits, texts, i + 1, failing, file_id_to_name, sources)
         ELSE Sources(hits, texts, i + 1, failing,
                      file_id_to_name \cup {file_id},
                      IF AppendsSource(StoredFilename[file_id], sources)
                      THEN Append(sources, StoredFilename[file_id])
                      ELSE sources)

\* Lines 622-631: the files whose lookup raised: the files of the hits with
\* text and a file id, among the failing ones.
LookupsRaised(hits, texts, failing) ==
    {hits[i].file_id : i \in {k \in 1..Len(hits) : texts[k] # <<>>}}
       \cap failing

\* Lines 633-634.
QueryContext(chunks) == Prefix(Join(Separator, chunks), QUERY_CONTEXT_CHARS)

\* Line 637: whether the handler answers without the model.
AnswersDirectlyNever(context) == FALSE

AnswersDirectly(context) == context = <<>>

\* Lines 646-652, one token for the whole text.
QuerySystemPrompt == <<"system_prompt">>

QueryContextHeader ==
    <<"C", "O", "N", "T", "E", "X", "T", "O", " ", "D", "E", " ", "L", "A",
      " ", "B", "A", "S", "E", " ", "D", "E", " ", "C", "O", "N", "O", "C",
      "I", "M", "I", "E", "N", "T", "O", ":", "\n", "\n">>

\* Lines 654-658.
QueryMessages(query, context) ==
    <<[role |-> "system", content |-> QuerySystemPrompt],
      [role |-> "system", content |-> QueryContextHeader \o context],
      [role |-> "user", content |-> query]>>

\* Line 673: the context handed back.
Excerpt(context) ==
    IF Len(context) > EXCERPT_CHARS
    THEN Prefix(context, EXCERPT_CHARS) \o <<".", ".", ".">>
    ELSE context

\* The callers of query_rag: requests the server handles at once.
QueryCallers == {1, 2}

\* None, for a field that holds a string otherwise.
None == "None"

\* AppState.client before configure_api_key.
NoClient == [api_key |-> None]

\* No search request sent.
NoSearch == [url |-> None]

\* Line 560: request.vector_store_id or state.vector_store_id.
ResolveIgnoringState(request_vs_id, state_vs_id) == request_vs_id

ResolveVectorStoreId(request_vs_id, state_vs_id) ==
    IF request_vs_id \notin {None, ""} THEN request_vs_id ELSE state_vs_id

\* Lines 556-557 and 561-565: the errors raised before the try block.
ClientNotConfigured ==
    [kind |-> "HTTPException", status_code |-> 400,
     detail |-> "API key no configurada"]

NoVectorStore ==
    [kind |-> "HTTPException", status_code |-> 400,
     detail |-> "No hay Vector Store configurado"]

\* Lines 678-690: the errors raised from the try block.
QueryFailed ==
    [kind |-> "HTTPException", status_code |-> 500, detail |-> "Error"]

\* Lines 667-674: the QueryResponse goes to the caller.
ReturnedToAll(responses, c, reply, sources, context) ==
    [d \in QueryCallers |->
       [kind |-> "QueryResponse", success |-> TRUE, answer |-> reply,
        sources |-> sources, context |-> context]]

Returned(responses, c, reply, sources, context) ==
    [responses EXCEPT ![c] =
       [kind |-> "QueryResponse", success |-> TRUE, answer |-> reply,
        sources |-> sources, context |-> context]]

\* Lines 546-590: query_rag is called by caller c. Without a client, or with
\* no vector store id in the request and none in AppState, it raises;
\* otherwise the search request goes out, with the id and state.api_key.
query_rag(c, query, request_vs_id) ==
    /\ query_pc[c] \in {"idle", "done"}
    /\ query_request' = [query_request EXCEPT ![c] =
                           [query |-> query, vector_store_id |-> request_vs_id]]
    /\ query_data' = [query_data EXCEPT ![c] = <<>>]
    /\ query_texts' = [query_texts EXCEPT ![c] = <<>>]
    /\ query_chunks' = [query_chunks EXCEPT ![c] = <<>>]
    /\ query_sources' = [query_sources EXCEPT ![c] = <<>>]
    /\ query_context' = [query_context EXCEPT ![c] = <<>>]
    /\ query_messages' = [query_messages EXCEPT ![c] = <<>>]
    /\ query_generated' = [query_generated EXCEPT ![c] = FALSE]
    /\ query_failed' = [query_failed EXCEPT ![c] = {}]
    /\ LET vs_id == ResolveVectorStoreId(request_vs_id, vector_store_id) IN
       IF client = NoClient
       THEN /\ query_pc' = [query_pc EXCEPT ![c] = "done"]
            /\ query_search' = [query_search EXCEPT ![c] = NoSearch]
            /\ query_response' =
                 [query_response EXCEPT ![c] = ClientNotConfigured]
       ELSE IF vs_id \in {None, ""}
       THEN /\ query_pc' = [query_pc EXCEPT ![c] = "done"]
            /\ query_search' = [query_search EXCEPT ![c] = NoSearch]
            /\ query_response' = [query_response EXCEPT ![c] = NoVectorStore]
       ELSE /\ query_pc' = [query_pc EXCEPT ![c] = "searching"]
            /\ query_search' = [query_search EXCEPT ![c] =
                                  [url |-> vs_id, api_key |-> api_key,
                                   query |-> query]]
            /\ query_response' = [query_response EXCEPT ![c] = NoOutcome]
    /\ UNCHANGED <<waitVars, batchVars, ragVars, appVars, setupVars>>

\* Lines 590-665: the search answers with `data`; texts, chunks, sources and
\* context are built; with no context the handler answers itself, otherwise
\* it sends the generation request. `failing` are the files whose lookup
\* (line 626) raises.
query_search_answers(c, data, failing) ==
    /\ query_pc[c] = "searching"
    /\ query_data' = [query_data EXCEPT ![c] = data]
    /\ query_texts' = [query_texts EXCEPT ![c] = QueryTexts(TopChunks(data))]
    /\ query_failed' =
         [query_failed EXCEPT ![c] =
            LookupsRaised(TopChunks(data), query_texts'[c], failing)]
    /\ query_chunks' = [query_chunks EXCEPT ![c] = Chunks(query_texts'[c], 1)]
    /\ query_sources' =
         [query_sources EXCEPT ![c] =
            Sources(TopChunks(data), query_texts'[c], 1, failing, {}, <<>>)]
    /\ query_context' =
         [query_context EXCEPT ![c] = QueryContext(query_chunks'[c])]
    /\ IF AnswersDirectly(query_context'[c])
       THEN /\ query_pc' = [query_pc EXCEPT ![c] = "done"]
            /\ query_messages' = [query_messages EXCEPT ![c] = <<>>]
            /\ query_generated' = [query_generated EXCEPT ![c] = FALSE]
            /\ query_response' =
                 Returned(query_response, c, NoInfoAnswer, <<>>, <<>>)
       ELSE /\ query_pc' = [query_pc EXCEPT ![c] = "generating"]
            /\ query_messages' =
                 [query_messages EXCEPT ![c] =
                    QueryMessages(query_request[c].query, query_context'[c])]
            /\ query_generated' = [query_generated EXCEPT ![c] = TRUE]
            /\ query_response' = [query_response EXCEPT ![c] = NoOutcome]
    /\ UNCHANGED <<waitVars, batchVars, ragVars, appVars, setupVars,
                   query_request, query_search>>

\* Lines 589 and 678-685: the search answers with an error status.
query_search_raises(c) ==
    /\ query_pc[c] = "searching"
    /\ query_pc' = [query_pc EXCEPT ![c] = "done"]
    /\ query_response' = [query_response EXCEPT ![c] = QueryFailed]
    /\ UNCHANGED <<waitVars, batchVars, ragVars, appVars, setupVars,
                   query_request, query_search, query_data, query_failed,
                   query_texts, query_chunks, query_sources, query_context,
                   query_messages, query_generated>>

\* Lines 661-674: the generation answers, the handler returns.
query_completion(c, reply) ==
    /\ query_pc[c] = "generating"
    /\ query_pc' = [query_pc EXCEPT ![c] = "done"]
    /\ query_response' =
         Returned(query_response, c, reply, query_sources[c],
                  Excerpt(query_context[c]))
    /\ UNCHANGED <<waitVars, batchVars, ragVars, appVars, setupVars,
                   query_request, query_search, query_data, query_failed,
                   query_texts, query_chunks, query_sources, query_context,
                   query_messages, query_generated>>

\* Lines 661-665 and 686-690: the generation raises.
query_completion_raises(c) ==
    /\ query_pc[c] = "generating"
    /\ query_pc' = [query_pc EXCEPT ![c] = "done"]
    /\ query_response' = [query_response EXCEPT ![c] = QueryFailed]
    /\ UNCHANGED <<waitVars, batchVars, ragVars, appVars, setupVars,
                   query_request, query_search, query_data, query_failed,
                   query_texts, query_chunks, query_sources, query_context,
                   query_messages, query_generated>>

\* ------------------------------------------ backend/api.py, the handlers
\* The api keys a caller configures.
ApiKeys == {"sk-1", "sk-2"}

\* The filenames of the files a caller uploads.
UploadNames == {<<"a", ".", "m", "d">>, <<"a", ".", "e", "x", "e">>}

\* The ids the provider gives to the files and to the vector stores it
\* creates, in the order it creates them.
ProviderFileIds == <<"file-1", "file-2", "file-3", "file-4">>

ProviderStoreIds == <<"vs_1", "vs_2", "vs_3", "vs_4">>

\* The ids a caller can name in a path or a request: those of the provider,
\* and one the provider does not know.
NamedStoreIds ==
    {ProviderStoreIds[n] : n \in 1..MaxStores} \cup {"vs_unknown"}

\* str.endswith.
EndsWith(name, suffix) ==
    /\ Len(name) >= Len(suffix)
    /\ SubSeq(name, Len(name) - Len(suffix) + 1, Len(name)) = suffix

\* Line 168: file.filename.endswith(('.pdf', '.md', '.txt')).
AllowedExtension(filename) ==
    \E suffix \in {<<".", "p", "d", "f">>, <<".", "m", "d">>,
                   <<".", "t", "x", "t">>} : EndsWith(filename, suffix)

\* Lines 244 and 398: [f["file_id"] for f in state.uploaded_files].
FileIdsOf(files) == [i \in 1..Len(files) |-> files[i].file_id]

\* The provider attaches the files of a batch to the store, each once; it
\* lists the files of a store in the order it created them.
Attach(held, file_ids) ==
    SelectSeq(ProviderFileIds, LAMBDA id :
        \/ \E k \in 1..Len(held) : held[k] = id
        \/ \E k \in 1..Len(file_ids) : file_ids[k] = id)

\* A call the handler makes to the provider.
ProviderCall(op, vs_id, file_ids) ==
    [op |-> op, vector_store_id |-> vs_id, file_ids |-> file_ids]

\* What a handler raises.
HTTPException(status_code, detail) ==
    [kind |-> "HTTPException", status_code |-> status_code,
     detail |-> detail]

\* Lines 189-195: the file_info of an uploaded file (its size and the time
\* of the upload are left out), appended to the registry.
FileInfo(file_id, filename) == [file_id |-> file_id, filename |-> filename]

RecordedOncePerName(files, file_id, filename) ==
    Append(SelectSeq(files, LAMBDA f : f.filename # filename),
           FileInfo(file_id, filename))

Recorded(files, file_id, filename) ==
    Append(files, FileInfo(file_id, filename))

\* Lines 234 and 383: not state.uploaded_files.
NothingRecordedNever(files) == FALSE

NothingRecorded(files) == Len(files) = 0

\* Line 401: all_file_ids = existing_file_ids + new_file_ids.
AllFileIds(existing_file_ids, new_file_ids) ==
    existing_file_ids \o new_file_ids

\* Lines 247-253 and 404-410: state.vector_store_id after the batch creation
\* returned or raised; vs_id is the store of the batch.
IdAfterStoreNamed(result, vs_id, current) == vs_id

IdAfterBatch(result, vs_id, current) ==
    IF result = "ok" THEN vs_id ELSE current

\* Lines 129-137: state.api_key after the validation returned or raised.
KeyBeforeValidation(result, key, current) == key

KeyAfterValidation(result, key, current) ==
    IF result = "ok" THEN key ELSE current

\* Lines 120-145. The client is built and tried with models.list(); when
\* neither raises, api_key and client are stored.
configure_api_key(key, result) ==
    /\ app_call' = [handler |-> "configure_api_key", api_key |-> key]
    /\ app_requests' =
         IF result = "OpenAI_raises" THEN <<>>
         ELSE <<ProviderCall("models.list", None, <<>>)>>
    /\ api_key' = KeyAfterValidation(result, key, api_key)
    /\ IF result = "ok"
       THEN /\ client' = [api_key |-> key]
            /\ app_response' = [kind |-> "return", success |-> TRUE]
       ELSE /\ app_response' = HTTPException(400, "API key invalida")
            /\ UNCHANGED client
    /\ UNCHANGED <<vector_store_id, uploaded_files, files_created,
                   stores_created, store_files>>
    /\ UNCHANGED <<waitVars, batchVars, ragVars, queryVars, setupVars>>

\* Lines 152-205. Without a client, or with another extension than .pdf,
\* .md, .txt, the handler raises; otherwise the file goes to the provider
\* and, when that succeeds, its file_info is appended to uploaded_files.
upload_file(filename, result) ==
    /\ files_created < MaxUploads
    /\ app_call' = [handler |-> "upload_file", filename |-> filename]
    /\ IF client = NoClient
       THEN /\ app_response' = HTTPException(400, "API key no configurada")
            /\ app_requests' = <<>>
            /\ UNCHANGED <<uploaded_files, files_created>>
       ELSE IF ~AllowedExtension(filename)
       THEN /\ app_response' = HTTPException(400, "Solo se permiten archivos")
            /\ app_requests' = <<>>
            /\ UNCHANGED <<uploaded_files, files_created>>
       ELSE IF result = "ok"
       THEN LET file_id == ProviderFileIds[files_created + 1] IN
            /\ files_created' = files_created + 1
            /\ app_requests' = <<ProviderCall("files.create", None, <<>>)>>
            /\ uploaded_files' = Recorded(uploaded_files, file_id, filename)
            /\ app_response' = [kind |-> "return", success |-> TRUE,
                                file_id |-> file_id, filename |-> filename]
       ELSE /\ app_requests' = <<ProviderCall("files.create", None, <<>>)>>
            /\ app_response' = HTTPException(500, "Error al subir archivo")
            /\ UNCHANGED <<uploaded_files, files_created>>
    /\ UNCHANGED <<client, api_key, vector_store_id, stores_created,
                   store_files>>
    /\ UNCHANGED <<waitVars, batchVars, ragVars, queryVars, setupVars>>

\* Lines 208-215.
list_files ==
    /\ app_call' = [handler |-> "list_files"]
    /\ app_requests' = <<>>
    /\ app_response' =
         IF client = NoClient
         THEN HTTPException(400, "API key no configurada")
         ELSE [kind |-> "return", files |-> uploaded_files]
    /\ UNCHANGED <<appState, files_created, stores_created, store_files>>
    /\ UNCHANGED <<waitVars, batchVars, ragVars, queryVars, setupVars>>

\* Lines 222-262. A store is created, then a batch with the file ids of
\* uploaded_files; when both succeed the store's id goes to
\* state.vector_store_id.
create_vector_store(result) ==
    /\ stores_created < MaxStores
    /\ app_call' = [handler |-> "create_vector_store"]
    /\ IF client = NoClient
       THEN /\ app_response' = HTTPException(400, "API key no configurada")
            /\ app_requests' = <<>>
            /\ UNCHANGED <<vector_store_id, stores_created, store_files>>
       ELSE IF NothingRecorded(uploaded_files)
       THEN /\ app_response' =
                 HTTPException(400, "No hay archivos subidos para indexar")
            /\ app_requests' = <<>>
            /\ UNCHANGED <<vector_store_id, stores_created, store_files>>
       ELSE IF result = "create_raises"
       THEN /\ app_response' =
                 HTTPException(500, "Error al crear Vector Store")
            /\ app_requests' =
                 <<ProviderCall("vector_stores.create", None, <<>>)>>
            /\ UNCHANGED <<vector_store_id, stores_created, store_files>>
       ELSE LET vs_id == ProviderStoreIds[stores_created + 1]
                file_ids == FileIdsOf(uploaded_files)
            IN
            /\ stores_created' = stores_created + 1
            /\ app_requests' =
                 <<ProviderCall("vector_stores.create", None, <<>>),
                   ProviderCall("file_batches.create", vs_id, file_ids)>>
            /\ IF result = "ok"
               THEN /\ store_files' =
                         [id \in DOMAIN store_files \cup {vs_id} |->
                            IF id = vs_id THEN Attach(<<>>, file_ids)
                            ELSE store_files[id]]
                    /\ app_response' =
                         [kind |-> "return", success |-> TRUE,
                          vector_store_id |-> vs_id]
               ELSE /\ store_files' =
                         [id \in DOMAIN store_files \cup {vs_id} |->
                            IF id = vs_id THEN <<>> ELSE store_files[id]]
                    /\ app_response' =
                         HTTPException(500, "Error al crear Vector Store")
            /\ vector_store_id' = IdAfterBatch(result, vs_id, vector_store_id)
    /\ UNCHANGED <<client, api_key, uploaded_files, files_created>>
    /\ UNCHANGED <<waitVars, batchVars, ragVars, queryVars, setupVars>>

\* Lines 369-424. The files of the store are listed, a batch is created with
\* their ids followed by the ids of uploaded_files; when both succeed the
\* store's id goes to state.vector_store_id. The listing of a store the
\* provider does not know raises.
add_files_to_vector_store(vs_id, result) ==
    /\ result = "ok" => vs_id \in DOMAIN store_files
    /\ result = "batch_raises" => vs_id \in DOMAIN store_files
    /\ app_call' = [handler |-> "add_files_to_vector_store",
                    vector_store_id |-> vs_id]
    /\ IF client = NoClient
       THEN /\ app_response' = HTTPException(400, "API key no configurada")
            /\ app_requests' = <<>>
            /\ UNCHANGED <<vector_store_id, store_files>>
       ELSE IF NothingRecorded(uploaded_files)
       THEN /\ app_response' =
                 HTTPException(400, "No hay archivos nuevos para agregar")
            /\ app_requests' = <<>>
            /\ UNCHANGED <<vector_store_id, store_files>>
       ELSE IF result = "list_raises"
       THEN /\ app_response' = HTTPException(500, "Error al agregar archivos")
            /\ app_requests' =
                 <<ProviderCall("vector_stores.files.list", vs_id, <<>>)>>
            /\ UNCHANGED <<vector_store_id, store_files>>
       ELSE LET existing_file_ids == store_files[vs_id]
                new_file_ids == FileIdsOf(uploaded_files)
                all_file_ids == AllFileIds(existing_file_ids, new_file_ids)
            IN
            /\ app_requests' =
                 <<ProviderCall("vector_stores.files.list", vs_id, <<>>),
                   ProviderCall("file_batches.create", vs_id, all_file_ids)>>
            /\ IF result = "ok"
               THEN /\ store_files' =
                         [store_files EXCEPT ![vs_id] =
                            Attach(existing_file_ids, all_file_ids)]
                    /\ app_response' =
                         [kind |-> "return", success |-> TRUE,
                          vector_store_id |-> vs_id]
               ELSE /\ app_response' =
                         HTTPException(500, "Error al agregar archivos")
                    /\ UNCHANGED store_files
            /\ vector_store_id' = IdAfterBatch(result, vs_id, vector_store_id)
    /\ UNCHANGED <<client, api_key, uploaded_files, files_created,
                   stores_created>>
    /\ UNCHANGED <<waitVars, batchVars, ragVars, queryVars, setupVars>>

\* Lines 463-485. The provider detaches the file from the store, or raises.
delete_file_from_vector_store(vs_id, file_id, result) ==
    /\ result = "ok" => vs_id \in DOMAIN store_files
    /\ app_call' = [handler |-> "delete_file_from_vector_store",
                    vector_store_id |-> vs_id, file_id |-> file_id]
    /\ IF client = NoClient
       THEN /\ app_response' = HTTPException(400, "API key no configurada")
            /\ app_requests' = <<>>
            /\ UNCHANGED store_files
       ELSE /\ app_requests' =
                 <<ProviderCall("vector_stores.files.delete", vs_id,
                                <<file_id>>)>>
            /\ IF result = "ok"
               THEN /\ store_files' =
                         [store_files EXCEPT ![vs_id] =
                            SelectSeq(@, LAMBDA id : id # file_id)]
                    /\ app_response' = [kind |-> "return", success |-> TRUE]
               ELSE /\ app_response' =
                         HTTPException(500, "Error al eliminar archivo")
                    /\ UNCHANGED store_files
    /\ UNCHANGED <<appState, files_created, stores_created>>
    /\ UNCHANGED <<waitVars, batchVars, ragVars, queryVars, setupVars>>

\* The handlers that ask the provider and report: list_vector_stores (lines
\* 265-295), get_status (298-316), list_vector_store_files (319-366),
\* get_batch_status (427-460), get_file_content (488-539).
ReportingHandlers ==
    {"list_vector_stores", "get_status", "list_vector_store_files",
     "get_batch_status", "get_file_content"}

reporting_handler(handler, result) ==
    /\ app_call' = [handler |-> handler]
    /\ IF client = NoClient
       THEN /\ app_response' = HTTPException(400, "API key no configurada")
            /\ app_requests' = <<>>
       ELSE /\ app_requests' = <<ProviderCall(handler, None, <<>>)>>
            /\ app_response' =
                 IF result = "ok" THEN [kind |-> "return", success |-> TRUE]
                 ELSE HTTPException(IF handler = "get_status" THEN 404
                                    ELSE 500, "Error")
    /\ UNCHANGED <<appState, files_created, stores_created, store_files>>
    /\ UNCHANGED <<waitVars, batchVars, ragVars, queryVars, setupVars>>

\* ---------------------------------------- create_file_batch, cancel_batch
\* The file ids a caller can name.
FileIds == {"file-1", "file-2"}

\* file_ids: a list of at most MaxFiles ids, repeats allowed.
FileIdLists == UNION {[1..n -> FileIds] : n \in 0..MaxFiles}

\* chunking_strategy: None, an empty dict, or a strategy.
ChunkingStrategies == {"None", "empty", "static"}

\* No call made, nothing sent.
NoRequest == [file_ids |-> <<>>, chunking_strategy |-> "absent", sent |-> FALSE]

\* Lines 111-117: create_params holds vector_store_id and file_ids, and
\* chunking_strategy only when it is truthy.
CreateParams(file_ids, chunking_strategy) ==
    [file_ids |-> file_ids,
     chunking_strategy |-> IF chunking_strategy \in {"None", "empty"}
                           THEN "absent" ELSE chunking_strategy,
     sent |-> TRUE]

\* Lines 108-133: the batch is submitted with the file ids as given; the
\* provider creates it, answering with its id and status, and the id is
\* returned.
create_file_batch(file_ids, chunking_strategy, status) ==
    /\ create_args' = [file_ids |-> file_ids,
                       chunking_strategy |-> chunking_strategy, sent |-> TRUE]
    /\ create_request' = CreateParams(file_ids, chunking_strategy)
    /\ provider' = status
    /\ create_outcome' = [kind |-> "return", value |-> "vsfb_1"]
    /\ UNCHANGED <<now, stable, callVars, cancel_answer, cancel_outcome>>
    /\ UNCHANGED <<ragVars, queryVars, appVars, setupVars>>

\* Lines 108-122: the batch is submitted and the provider's client raises.
create_file_batch_raises(file_ids, chunking_strategy, error) ==
    /\ create_args' = [file_ids |-> file_ids,
                       chunking_strategy |-> chunking_strategy, sent |-> TRUE]
    /\ create_request' = CreateParams(file_ids, chunking_strategy)
    /\ create_outcome' = [kind |-> "ProviderError", error |-> error]
    /\ UNCHANGED <<now, stable, provider, callVars, cancel_answer,
                   cancel_outcome>>
    /\ UNCHANGED <<ragVars, queryVars, appVars, setupVars>>

\* Lines 375-380: True when the answered batch is cancelled, else False.
CancelResultUnlessInProgress(status) == status # "in_progress"

CancelResult(status) == status = "cancelled"

\* Lines 368-380: the provider is asked to cancel and answers with the batch
\* as it now is: `status`, which for a stable provider is the old status
\* when that was terminal.
cancel_batch(status) ==
    /\ (stable /\ provider \in TerminalStatuses) => status = provider
    /\ provider' = status
    /\ cancel_answer' = status
    /\ cancel_outcome' = [kind |-> "return", value |-> CancelResult(status)]
    /\ UNCHANGED <<now, stable, callVars, create_args, create_request,
                   create_outcome>>
    /\ UNCHANGED <<ragVars, queryVars, appVars, setupVars>>

\* Lines 370-373: the provider's client raises.
cancel_batch_raises(error) ==
    /\ cancel_answer' = "none"
    /\ cancel_outcome' = [kind |-> "ProviderError", error |-> error]
    /\ UNCHANGED <<now, stable, provider, callVars, create_args,
                   create_request, create_outcome>>
    /\ UNCHANGED <<ragVars, queryVars, appVars, setupVars>>

\* ------------------------------------------------------------ wait_for_batch
\* Lines 243-258: the three `if batch.status == ...: return ...`; any other
\* status falls through to the sleep.
WaitReturnForgetsCancelled(b) ==
    CASE b.status = "completed" -> "completed"
      [] b.status = "failed" -> "failed"
      [] OTHER -> "continue"

WaitReturnEscalatesFailedFiles(b) ==
    CASE b.status = "completed" /\ b.file_counts.failed > 0 -> "failed"
      [] b.status = "completed" -> "completed"
      [] b.status = "failed" -> "failed"
      [] b.status = "cancelled" -> "cancelled"
      [] OTHER -> "continue"

WaitReturn(b) ==
    CASE b.status = "completed" -> "completed"
      [] b.status = "failed" -> "failed"
      [] b.status = "cancelled" -> "cancelled"
      [] OTHER -> "continue"

\* Line 224: `if elapsed >= timeout_seconds`.
TimedOutStrict(elapsed, timeout) == elapsed > timeout

TimedOut(elapsed, timeout) == elapsed >= timeout

\* Lines 225-228: the exception the timeout branch ends with. The message is
\* built from timeout_seconds and batch.status; reading batch before the first
\* poll assigned it raises UnboundLocalError instead.
TimeoutReturnsFailed(timeout, b) == [kind |-> "return", value |-> "failed"]

TimeoutRaise(timeout, b) ==
    IF b = Unbound
    THEN [kind |-> "UnboundLocalError"]
    ELSE [kind |-> "TimeoutError", timeout |-> timeout, status |-> b.status]

\* Lines 215-218: the call starts and reads the clock.
wait_for_batch(w, T, p) ==
    /\ pc[w] = "idle"
    /\ pc' = [pc EXCEPT ![w] = "check"]
    /\ timeout_seconds' = [timeout_seconds EXCEPT ![w] = T]
    /\ poll_interval' = [poll_interval EXCEPT ![w] = p]
    /\ start_time' = [start_time EXCEPT ![w] = now]
    /\ UNCHANGED <<now, stable, provider, wake, batch, outcome, polls, sleeps,
                   raised>>
    /\ UNCHANGED <<batchVars, ragVars, queryVars, appVars, setupVars>>

\* Lines 220-231: the head of the loop. elapsed is computed; on timeout the
\* call raises, otherwise get_batch_status is called and answers after
\* `latency` seconds.
CheckTimeout(w, latency) ==
    /\ pc[w] = "check"
    /\ LET elapsed == now - start_time[w] IN
       IF TimedOut(elapsed, timeout_seconds[w])
       THEN /\ pc' = [pc EXCEPT ![w] = "done"]
            /\ outcome' = [outcome EXCEPT
                             ![w] = TimeoutRaise(timeout_seconds[w], batch[w])]
            /\ UNCHANGED wake
       ELSE /\ polls[w] < MaxPolls
            /\ pc' = [pc EXCEPT ![w] = "polling"]
            /\ wake' = [wake EXCEPT ![w] = now + latency]
            /\ UNCHANGED outcome
    /\ UNCHANGED <<now, stable, provider, timeout_seconds, poll_interval,
                   start_time, batch, polls, sleeps, raised>>
    /\ UNCHANGED <<batchVars, ragVars, queryVars, appVars, setupVars>>

\* Lines 163-168 and 231-261: the provider answers the poll with the batch's
\* status and its file counts of the moment; the call returns on a final
\* status and otherwise starts time.sleep(poll_interval).
get_batch_status(w, counts) ==
    /\ pc[w] = "polling"
    /\ now = wake[w]
    /\ LET b == [status |-> provider, file_counts |-> counts] IN
       /\ batch' = [batch EXCEPT ![w] = b]
       /\ polls' = [polls EXCEPT ![w] = @ + 1]
       /\ IF WaitReturn(b) # "continue"
          THEN /\ pc' = [pc EXCEPT ![w] = "done"]
               /\ outcome' = [outcome EXCEPT
                                ![w] = [kind |-> "return",
                                        value |-> WaitReturn(b)]]
               /\ UNCHANGED <<wake, sleeps>>
          ELSE /\ pc' = [pc EXCEPT ![w] = "sleeping"]
               /\ wake' = [wake EXCEPT ![w] = now + poll_interval[w]]
               /\ sleeps' = [sleeps EXCEPT ![w] = @ + 1]
               /\ UNCHANGED outcome
    /\ UNCHANGED <<now, stable, provider, timeout_seconds, poll_interval,
                   start_time, raised>>
    /\ UNCHANGED <<batchVars, ragVars, queryVars, appVars, setupVars>>

\* The provider's error caught and the loop entered again (what the code
\* does not do).
get_batch_status_retried(w, error) ==
    /\ pc[w] = "polling"
    /\ now = wake[w]
    /\ raised' = [raised EXCEPT ![w] = error]
    /\ pc' = [pc EXCEPT ![w] = "check"]
    /\ UNCHANGED <<now, stable, provider, timeout_seconds, poll_interval,
                   start_time, wake, batch, outcome, polls, sleeps>>
    /\ UNCHANGED <<batchVars, ragVars, queryVars, appVars, setupVars>>

\* Line 231 with lines 163-166: client...retrieve raises; nothing in
\* wait_for_batch or get_batch_status catches, so the call ends with it.
get_batch_status_raises(w, error) ==
    /\ pc[w] = "polling"
    /\ now = wake[w]
    /\ raised' = [raised EXCEPT ![w] = error]
    /\ pc' = [pc EXCEPT ![w] = "done"]
    /\ outcome' = [outcome EXCEPT
                     ![w] = [kind |-> "ProviderError", error |-> error]]
    /\ UNCHANGED <<now, stable, provider, timeout_seconds, poll_interval,
                   start_time, wake, batch, polls, sleeps>>
    /\ UNCHANGED <<batchVars, ragVars, queryVars, appVars, setupVars>>

\* Line 261 and back to line 220: time.sleep(poll_interval) returns.
SleepReturns(w) ==
    /\ pc[w] = "sleeping"
    /\ now = wake[w]
    /\ pc' = [pc EXCEPT ![w] = "check"]
    /\ UNCHANGED <<now, stable, provider, timeout_seconds, poll_interval,
                   start_time, wake, batch, outcome, polls, sleeps, raised>>
    /\ UNCHANGED <<batchVars, ragVars, queryVars, appVars, setupVars>>

\* A second of wall-clock time passes. A call at the head of its loop runs
\* on without waiting; a poll's answer and a sleep's end come when due.
Tick ==
    /\ now < MaxTime
    /\ \A w \in Waiters :
         /\ pc[w] # "check"
         /\ pc[w] \in {"polling", "sleeping"} => now < wake[w]
    /\ now' = now + 1
    /\ UNCHANGED <<stable, provider, callVars>>
    /\ UNCHANGED <<batchVars, ragVars, queryVars, appVars, setupVars>>

\* The provider works on the batch: any status may follow, except that a
\* stable provider leaves a terminal batch alone.
ProviderStep(status) ==
    /\ stable => provider \notin TerminalStatuses
    /\ status # provider
    /\ provider' = status
    /\ UNCHANGED <<now, stable, callVars>>
    /\ UNCHANGED <<batchVars, ragVars, queryVars, appVars, setupVars>>

\* ------------------------------------------- backend/main.py action_setup
\* load_config, lines 60-65, of a missing file: {}. The keys action_setup
\* writes are absent.
NoConfig == [vector_store_id |-> None, last_file_ids |-> <<None>>]

\* The config an earlier setup saved.
OldConfig == [vector_store_id |-> "vs_old", last_file_ids |-> <<"file-0">>]

\* Line 114: timeout_seconds=600.
SETUP_TIMEOUT == 600

\* The vs_id argument: none, a store the provider has, a store it has not.
SetupStoreIds == {None, "vs_old", "vs_gone"}

\* What upload_files_from_pattern returns: the ids of the files uploaded,
\* none when every upload failed.
SetupFileIds == {[i \in 1..n |-> ProviderFileIds[i]] : n \in 0..MaxFiles}

\* The statuses the polls of a wait are answered with, until the call
\* returns or its time is over.
PollAnswers == UNION {[1..n -> Statuses] : n \in 1..MaxPolls}

\* vector_store_manager.py lines 234-243: the store named is used when the
\* provider has it, a new one is created otherwise.
StoreUsed(vs_id) == IF vs_id = "vs_old" THEN vs_id ELSE "vs_new"

\* batch_manager.py lines 220-261, with the polls answered by `answers`: the
\* first final status is returned; when none is, the timeout is raised with
\* the last batch polled.
RECURSIVE WaitOutcome(_, _)
WaitOutcome(answers, last) ==
    IF answers = <<>> THEN TimeoutRaise(SETUP_TIMEOUT, last)
    ELSE LET b == [status |-> Head(answers),
                   file_counts |-> Unbound.file_counts]
         IN IF WaitReturn(b) # "continue"
            THEN [kind |-> "return", value |-> WaitReturn(b)]
            ELSE WaitOutcome(Tail(answers), b)

\* Lines 122-124: the config with the two keys written.
ConfigKeepsFileIds(config, vs_id, file_ids) ==
    [config EXCEPT !.vector_store_id = vs_id]

ConfigAfterSetup(config, vs_id, file_ids) ==
    [config EXCEPT !.vector_store_id = vs_id, !.last_file_ids = file_ids]

\* Lines 77-100: action_setup is called; get_or_create_vector_store returns
\* the id of the store.
action_setup(vs_id) ==
    /\ setup_pc \in {"idle", "done"}
    /\ setup_pc' = "uploading"
    /\ setup_vs_id' = StoreUsed(vs_id)
    /\ setup_file_ids' = <<>>
    /\ setup_outcome' = NoOutcome
    /\ UNCHANGED saved_config
    /\ UNCHANGED <<waitVars, batchVars, ragVars, queryVars, appVars>>

\* Line 100: get_or_create_vector_store raises (the store cannot be
\* created), and so does action_setup.
action_setup_raises(vs_id, error) ==
    /\ setup_pc \in {"idle", "done"}
    /\ setup_pc' = "done"
    /\ setup_vs_id' = None
    /\ setup_file_ids' = <<>>
    /\ setup_outcome' = [kind |-> error]
    /\ UNCHANGED saved_config
    /\ UNCHANGED <<waitVars, batchVars, ragVars, queryVars, appVars>>

\* Lines 105-109: upload_files_from_pattern returns file_ids; with none,
\* action_setup returns the store's id.
setup_upload_returns(file_ids) ==
    /\ setup_pc = "uploading"
    /\ setup_file_ids' = file_ids
    /\ IF file_ids = <<>>
       THEN /\ setup_pc' = "done"
            /\ setup_outcome' = [kind |-> "return", value |-> setup_vs_id,
                                 status |-> "none"]
       ELSE /\ setup_pc' = "indexing"
            /\ setup_outcome' = NoOutcome
    /\ UNCHANGED <<setup_vs_id, saved_config>>
    /\ UNCHANGED <<waitVars, batchVars, ragVars, queryVars, appVars>>

\* Line 105 with file_uploader.py lines 185-186: no file matches the
\* pattern, upload_files_from_pattern raises SystemExit.
setup_upload_raises ==
    /\ setup_pc = "uploading"
    /\ setup_pc' = "done"
    /\ setup_outcome' = [kind |-> "SystemExit"]
    /\ UNCHANGED <<setup_vs_id, setup_file_ids, saved_config>>
    /\ UNCHANGED <<waitVars, batchVars, ragVars, queryVars, appVars>>

\* Lines 114-131: create_and_wait_batch creates the batch and waits, the
\* polls answered by `answers`. When it returns a status the config is
\* loaded, the two keys are written and it is saved; when it raises so does
\* action_setup.
setup_create_and_wait_batch(answers) ==
    /\ setup_pc = "indexing"
    /\ setup_pc' = "done"
    /\ LET waited == WaitOutcome(answers, Unbound) IN
       IF waited.kind = "return"
       THEN /\ saved_config' =
                 ConfigAfterSetup(saved_config, setup_vs_id, setup_file_ids)
            /\ setup_outcome' = [kind |-> "return", value |-> setup_vs_id,
                                 status |-> waited.value]
       ELSE /\ setup_outcome' = waited
            /\ UNCHANGED saved_config
    /\ UNCHANGED <<setup_vs_id, setup_file_ids>>
    /\ UNCHANGED <<waitVars, batchVars, ragVars, queryVars, appVars>>

\* Line 114 with batch_manager.py lines 298-299: create_file_batch or a poll
\* of wait_for_batch raises.
setup_create_and_wait_batch_raises(error) ==
    /\ setup_pc = "indexing"
    /\ setup_pc' = "done"
    /\ setup_outcome' = [kind |-> error]
    /\ UNCHANGED <<setup_vs_id, setup_file_ids, saved_config>>
    /\ UNCHANGED <<waitVars, batchVars, ragVars, queryVars, appVars>>

\* Before any call: the batch is being processed, no call has begun.
InitProgram ==
    /\ now = 0
    /\ stable \in BOOLEAN
    /\ provider \in {"queued", "in_progress"}
    /\ pc = [w \in Waiters |-> "idle"]
    /\ timeout_seconds = [w \in Waiters |-> 0]
    /\ poll_interval = [w \in Waiters |-> 0]
    /\ start_time = [w \in Waiters |-> 0]
    /\ wake = [w \in Waiters |-> 0]
    /\ batch = [w \in Waiters |-> Unbound]
    /\ outcome = [w \in Waiters |-> NoOutcome]
    /\ polls = [w \in Waiters |-> 0]
    /\ sleeps = [w \in Waiters |-> 0]
    /\ raised = [w \in Waiters |-> "none"]
    /\ create_args = NoRequest
    /\ create_request = NoRequest
    /\ create_outcome = NoOutcome
    /\ cancel_answer = "none"
    /\ cancel_outcome = NoOutcome
    /\ rag_pc = "idle"
    /\ rag_call = [method |-> "none"]
    /\ search_results = <<>>
    /\ hit_texts = <<>>
    /\ rag_snippets = <<>>
    /\ rag_context = <<>>
    /\ rag_messages = <<>>
    /\ rag_generated = FALSE
    /\ rag_response = NoOutcome
    /\ query_pc = [c \in QueryCallers |-> "idle"]
    /\ query_request = [c \in QueryCallers |->
                          [query |-> <<>>, vector_store_id |-> None]]
    /\ query_search = [c \in QueryCallers |-> NoSearch]
    /\ query_data = [c \in QueryCallers |-> <<>>]
    /\ query_failed = [c \in QueryCallers |-> {}]
    /\ query_texts = [c \in QueryCallers |-> <<>>]
    /\ query_chunks = [c \in QueryCallers |-> <<>>]
    /\ query_sources = [c \in QueryCallers |-> <<>>]
    /\ query_context = [c \in QueryCallers |-> <<>>]
    /\ query_messages = [c \in QueryCallers |-> <<>>]
    /\ query_generated = [c \in QueryCallers |-> FALSE]
    /\ query_response = [c \in QueryCallers |-> NoOutcome]
    /\ app_call = [handler |-> "none"]
    /\ app_requests = <<>>
    /\ app_response = NoOutcome
    /\ setup_pc = "idle"
    /\ setup_vs_id = None
    /\ setup_file_ids = <<>>
    /\ setup_outcome = NoOutcome

\* backend/api.py lines 63-71: the server as it starts, and a provider that
\* holds no file and no store of its.
InitServer ==
    /\ client = NoClient
    /\ api_key = None
    /\ vector_store_id = None
    /\ uploaded_files = <<>>
    /\ files_created = 0
    /\ stores_created = 0
    /\ store_files = [vs_id \in {} |-> <<>>]

\* The server after configure_api_key, upload_file and create_vector_store
\* succeeded once each.
InitIndexed ==
    /\ client = [api_key |-> "sk-1"]
    /\ api_key = "sk-1"
    /\ vector_store_id = "vs_1"
    /\ uploaded_files = <<[file_id |-> "file-1",
                           filename |-> <<"a", ".", "m", "d">>]>>
    /\ files_created = 1
    /\ stores_created = 1
    /\ store_files = [vs_id \in {"vs_1"} |-> <<"file-1">>]

\* The assistant, where there is one, has the default max_context_chars; the
\* server has just started; no config was saved.
Init ==
    /\ InitProgram
    /\ max_context_chars = MAX_CONTEXT_CHARS
    /\ InitServer
    /\ saved_config = NoConfig

\* One call of wait_for_batch, with every timeout and poll interval.
Next ==
    \/ \E T \in 0..MaxTimeout, p \in 0..MaxInterval : wait_for_batch(1, T, p)
    \/ \E latency \in 0..MaxLatency : CheckTimeout(1, latency)
    \/ \E counts \in FileCounts : get_batch_status(1, counts)
    \/ \E error \in ProviderErrors : get_batch_status_raises(1, error)
    \/ SleepReturns(1)
    \/ Tick
    \/ \E status \in Statuses : ProviderStep(status)

vars == <<waitVars, batchVars, ragVars, queryVars, appVars, setupVars>>

Spec == Init /\ [][Next]_vars

\* Two calls of wait_for_batch on the same batch id, against a provider that
\* leaves a terminal batch alone.
InitConcurrent == Init /\ stable

\* The file counts play no part in two calls agreeing: every file completed.
ConcurrentCounts == {c \in FileCounts : c.completed = MaxFiles}

NextConcurrent ==
    \/ \E w \in Waiters, p \in 0..MaxInterval :
         wait_for_batch(w, MaxTimeout, p)
    \/ \E w \in Waiters, latency \in 0..1 : CheckTimeout(w, latency)
    \/ \E w \in Waiters, counts \in ConcurrentCounts :
         get_batch_status(w, counts)
    \/ \E w \in Waiters : get_batch_status_raises(w, "APIConnectionError")
    \/ \E w \in Waiters : SleepReturns(w)
    \/ Tick
    \/ \E status \in Statuses : ProviderStep(status)

SpecConcurrent == InitConcurrent /\ [][NextConcurrent]_vars

\* Calls of create_file_batch and cancel_batch, and the provider at work.
NextBatch ==
    \/ \E file_ids \in FileIdLists, chunking_strategy \in ChunkingStrategies,
          status \in {"queued", "in_progress"} :
         create_file_batch(file_ids, chunking_strategy, status)
    \/ \E file_ids \in FileIdLists, chunking_strategy \in ChunkingStrategies,
          error \in ProviderErrors :
         create_file_batch_raises(file_ids, chunking_strategy, error)
    \/ \E status \in Statuses : cancel_batch(status)
    \/ \E error \in ProviderErrors : cancel_batch_raises(error)
    \/ \E status \in Statuses : ProviderStep(status)

SpecBatch == Init /\ [][NextBatch]_vars

\* An assistant built with some max_context_chars, and the calls made of
\* it, one after the other.
InitRAG ==
    /\ InitProgram
    /\ InitServer
    /\ saved_config = NoConfig
    /\ stable
    /\ provider = "queued"
    /\ max_context_chars \in MaxContextChars

NextRAG ==
    \/ \E query \in Queries, additional_context \in AdditionalContexts :
         answer(query, additional_context)
    \/ \E query \in Queries, conversation_history \in Histories :
         answer_with_history(query, conversation_history)
    \/ \E data \in SearchData : search_vector_store(data)
    \/ search_vector_store_raises("HTTPError")
    \/ chat_completion(Reply)
    \/ chat_completion_raises("APIError")

SpecRAG == InitRAG /\ [][NextRAG]_vars

\* The files whose lookup raises in a call: none, one, all.
LookupFailures ==
    {{}, StoredFileIds} \cup {{file_id} : file_id \in StoredFileIds}

\* A server with a client and a vector store.
InitQuery ==
    /\ InitProgram
    /\ max_context_chars = MAX_CONTEXT_CHARS
    /\ InitIndexed
    /\ saved_config = NoConfig
    /\ stable
    /\ provider = "queued"

\* The calls of query_rag, one after the other.
NextQuery ==
    \/ \E query \in Queries : query_rag(1, query, None)
    \/ \E data \in QuerySearchData, failing \in LookupFailures :
         query_search_answers(1, data, failing)
    \/ query_search_raises(1)
    \/ query_completion(1, Reply)
    \/ query_completion_raises(1)

SpecQuery == InitQuery /\ [][NextQuery]_vars

\* The server as it starts.
InitApp ==
    /\ Init
    /\ stable
    /\ provider = "queued"

\* The server from its start: the handlers that keep or report the state,
\* called in any order with any outcome at the provider.
NextApp ==
    \/ \E key \in ApiKeys,
          result \in {"ok", "OpenAI_raises", "models_list_raises"} :
         configure_api_key(key, result)
    \/ \E filename \in UploadNames, result \in {"ok", "create_raises"} :
         upload_file(filename, result)
    \/ list_files
    \/ \E result \in {"ok", "create_raises", "batch_raises"} :
         create_vector_store(result)
    \/ \E vs_id \in NamedStoreIds,
          result \in {"ok", "list_raises", "batch_raises"} :
         add_files_to_vector_store(vs_id, result)
    \/ \E vs_id \in NamedStoreIds, result \in {"ok", "delete_raises"} :
         delete_file_from_vector_store(vs_id, ProviderFileIds[1], result)
    \/ \E handler \in ReportingHandlers, result \in {"ok", "raises"} :
         reporting_handler(handler, result)

SpecApp == InitApp /\ [][NextApp]_vars

\* The vector store ids a request of query_rag carries: none, the empty
\* string, or an id.
RequestStoreIds == {None, "", "vs_unknown"}

\* The "data" of the search responses of the server's queries: no hit, or
\* one hit with text.
ServeSearchData == {<<>>, <<PlainHit("file-1")>>}

\* The server from its start: the handlers that set the client and the
\* vector store id, and the calls of query_rag of one caller.
NextServe ==
    \/ \E result \in {"ok", "models_list_raises"} :
         configure_api_key("sk-1", result)
    \/ upload_file(<<"a", ".", "m", "d">>, "ok")
    \/ \E result \in {"ok", "batch_raises"} : create_vector_store(result)
    \/ \E vs_id \in NamedStoreIds, result \in {"ok", "list_raises"} :
         add_files_to_vector_store(vs_id, result)
    \/ \E query \in Queries, request_vs_id \in RequestStoreIds :
         query_rag(1, query, request_vs_id)
    \/ \E data \in ServeSearchData : query_search_answers(1, data, {})
    \/ query_search_raises(1)
    \/ query_completion(1, Reply)
    \/ query_completion_raises(1)

SpecServe == InitApp /\ [][NextServe]_vars

\* Two callers of query_rag at once, on a server with a client and a vector
\* store.
NextQueries ==
    \/ \E c \in QueryCallers, query \in Queries,
          request_vs_id \in {None, "vs_2"} :
         query_rag(c, query, request_vs_id)
    \/ \E c \in QueryCallers, data \in ServeSearchData,
          failing \in {{}, {"file-1"}} :
         query_search_answers(c, data, failing)
    \/ \E c \in QueryCallers : query_search_raises(c)
    \/ \E c \in QueryCallers : query_completion(c, Reply)
    \/ \E c \in QueryCallers : query_completion_raises(c)

SpecQueries == InitQuery /\ [][NextQueries]_vars

\* The runs of action_setup, one after the other, with or without a config
\* saved before.
InitSetup ==
    /\ InitProgram
    /\ max_context_chars = MAX_CONTEXT_CHARS
    /\ InitServer
    /\ saved_config \in {NoConfig, OldConfig}
    /\ stable
    /\ provider = "queued"

NextSetup ==
    \/ \E vs_id \in SetupStoreIds : action_setup(vs_id)
    \/ \E vs_id \in SetupStoreIds, error \in ProviderErrors :
         action_setup_raises(vs_id, error)
    \/ \E file_ids \in SetupFileIds : setup_upload_returns(file_ids)
    \/ setup_upload_raises
    \/ \E answers \in PollAnswers : setup_create_and_wait_batch(answers)
    \/ \E error \in ProviderErrors :
         setup_create_and_wait_batch_raises(error)

SpecSetup == InitSetup /\ [][NextSetup]_vars

\* ------------------------------------------------ claims on wait_for_batch
\* A poll of call w is answered in this step.
Answered(w) == polls'[w] = polls[w] + 1

\* What C1 and its amendment share: a poll answered with completed, failed
\* or cancelled makes the call return that status in the same step, with no
\* sleep after it; a poll answered with any other status starts exactly one
\* sleep of poll_interval, which ends poll_interval later at the head of the
\* loop; no poll starts but from the head of the loop, one sleep after the
\* poll before it; a call that has ended polls and sleeps no more.
PollMachineStep(w) ==
    /\ Answered(w) =>
         IF batch'[w].status \in TerminalStatuses
         THEN /\ pc'[w] = "done"
              /\ outcome'[w] = [kind |-> "return", value |-> batch'[w].status]
              /\ sleeps'[w] = sleeps[w]
         ELSE /\ pc'[w] = "sleeping"
              /\ sleeps'[w] = sleeps[w] + 1
              /\ wake'[w] = now + poll_interval[w]
    /\ (pc[w] = "sleeping" /\ pc'[w] # "sleeping") =>
         /\ pc'[w] = "check"
         /\ now = wake[w]
    /\ (pc[w] # "polling" /\ pc'[w] = "polling") =>
         /\ pc[w] = "check"
         /\ sleeps[w] = polls[w]
    /\ pc[w] = "done" =>
         /\ pc'[w] = "done"
         /\ polls'[w] = polls[w]
         /\ sleeps'[w] = sleeps[w]

\* C1 as stated: wait_for_batch follows the poll state machine: it returns
\* the status of the first poll answered completed, failed or cancelled,
\* without sleeping after it; after every poll answered with another status
\* it sleeps poll_interval exactly once and then polls again.
C1_SleepsOnceThenPollsAgain ==
    [][\A w \in Waiters :
         /\ PollMachineStep(w)
         /\ (pc[w] = "check" /\ sleeps[w] >= 1 /\ pc'[w] # "check") =>
              pc'[w] = "polling"
      ]_vars

\* C1 as amended: the same, except that after the sleep the call polls again
\* only while the elapsed time is below timeout_seconds; once it has reached
\* timeout_seconds the call ends there, with no further poll.
C1_PollStateMachine ==
    [][\A w \in Waiters :
         /\ PollMachineStep(w)
         /\ (pc[w] = "check" /\ pc'[w] # "check") =>
              IF now - start_time[w] < timeout_seconds[w]
              THEN pc'[w] = "polling"
              ELSE pc'[w] = "done" /\ polls'[w] = polls[w]
      ]_vars

\* A call that returned a terminal status after a non-terminal poll and the
\* one sleep that followed it.
C1_Witness ==
    \E w \in Waiters :
       /\ outcome[w].kind = "return"
       /\ outcome[w].value \in TerminalStatuses
       /\ polls[w] >= 2
       /\ sleeps[w] = polls[w] - 1

\* C2: a poll answered with status completed makes wait_for_batch return
\* "completed" whatever the file counts of the answer are, counts.failed > 0
\* included; it neither returns "failed" nor raises.
C2_CompletedWhateverTheCounts ==
    \A w \in Waiters :
       batch[w].status = "completed" =>
          /\ pc[w] = "done"
          /\ outcome[w] = [kind |-> "return", value |-> "completed"]

\* A batch reported completed with one file completed and one failed.
C2_Witness ==
    \E w \in Waiters :
       /\ batch[w].status = "completed"
       /\ batch[w].file_counts.failed > 0
       /\ batch[w].file_counts.completed > 0
       /\ outcome[w] = [kind |-> "return", value |-> "completed"]

\* C3: for every timeout (0 included) and poll interval, when the elapsed
\* time has reached the timeout at the head of the loop, no terminal status
\* seen, wait_for_batch fails with TimeoutError and nothing else, and the
\* error carries the last-known status and file counts of the batch.
C3_TimeoutErrorCarriesStatusAndCounts ==
    [][\A w \in Waiters :
         (pc[w] = "check" /\ pc'[w] # "check"
            /\ now - start_time[w] >= timeout_seconds[w]) =>
           /\ pc'[w] = "done"
           /\ outcome'[w].kind = "TimeoutError"
           /\ "status" \in DOMAIN outcome'[w]
           /\ outcome'[w].status = batch[w].status
           /\ "file_counts" \in DOMAIN outcome'[w]
           /\ outcome'[w].file_counts = batch[w].file_counts
      ]_vars

\* C4: a call of wait_for_batch with timeout T and poll interval p, every
\* poll of which is answered, ends (with a terminal status or with Timeout)
\* no later than T + p after it was invoked.
C4_EndsWithinTimeoutPlusInterval ==
    [][\A w \in Waiters :
         (pc[w] # "done" /\ pc'[w] = "done"
            /\ outcome'[w].kind # "ProviderError") =>
           now' - start_time[w] <= timeout_seconds[w] + poll_interval[w]
      ]_vars

\* C5: wait_for_batch raises TimeoutError only when at least timeout_seconds
\* have elapsed since it was invoked and the last poll's answer, if any, was
\* not terminal; and it starts no poll once the elapsed time has reached
\* timeout_seconds.
C5_TimeoutNotEarlyNoPollAfter ==
    [][\A w \in Waiters :
         /\ (outcome[w].kind # "TimeoutError"
               /\ outcome'[w].kind = "TimeoutError") =>
              /\ now - start_time[w] >= timeout_seconds[w]
              /\ batch[w].status \notin TerminalStatuses
         /\ (pc[w] # "polling" /\ pc'[w] = "polling") =>
              now - start_time[w] < timeout_seconds[w]
      ]_vars

\* A call that raised TimeoutError after polls that were answered.
C5_Witness ==
    \E w \in Waiters :
       /\ outcome[w].kind = "TimeoutError"
       /\ polls[w] >= 1
       /\ now - start_time[w] >= timeout_seconds[w]

\* C8: two concurrent calls of wait_for_batch on one batch, the provider
\* leaving a terminal batch alone: when both return a status the two are
\* the same terminal status; and a step of one call changes neither the
\* provider's batch nor anything of the other call.
C8_ConcurrentWaitsAgree ==
    /\ [](\A v, w \in Waiters :
            (outcome[v].kind = "return" /\ outcome[w].kind = "return") =>
               /\ outcome[v].value = outcome[w].value
               /\ outcome[v].value \in TerminalStatuses)
    /\ [][\A w \in Waiters :
            pc'[w] # pc[w] =>
               /\ provider' = provider
               /\ \A v \in Waiters \ {w} :
                     /\ pc'[v] = pc[v]
                     /\ batch'[v] = batch[v]
                     /\ outcome'[v] = outcome[v]
                     /\ wake'[v] = wake[v]
                     /\ polls'[v] = polls[v]
         ]_vars

\* Both calls returned, after different numbers of polls.
C8_Witness ==
    /\ outcome[1].kind = "return"
    /\ outcome[2].kind = "return"
    /\ polls[1] # polls[2]
    /\ start_time[1] # start_time[2]

\* C9: a provider error is never retried. Once a poll of a call has raised,
\* the call has ended with that same error, and it polls and sleeps no more.
C9_ProviderErrorEndsTheWait ==
    /\ [](\A w \in Waiters :
            raised[w] # "none" =>
               /\ pc[w] = "done"
               /\ outcome[w] = [kind |-> "ProviderError",
                                error |-> raised[w]])
    /\ [][\A w \in Waiters :
            raised[w] # "none" =>
               /\ pc'[w] = pc[w]
               /\ polls'[w] = polls[w]
               /\ sleeps'[w] = sleeps[w]
               /\ outcome'[w] = outcome[w]
         ]_vars

\* A poll raised after an earlier poll was answered and slept on.
C9_Witness ==
    \E w \in Waiters :
       /\ raised[w] = "NotFoundError"
       /\ outcome[w].kind = "ProviderError"
       /\ polls[w] >= 1
       /\ sleeps[w] >= 1

\* ---------------------------- claims on create_file_batch and cancel_batch
\* C6: create_file_batch called with an empty file_ids list fails with an
\* InvalidRequest error and submits no batch to the provider.
C6_EmptyFileIdsRejected ==
    (create_args.sent /\ create_args.file_ids = <<>>) =>
       /\ create_outcome.kind = "InvalidRequest"
       /\ ~create_request.sent

\* C7: cancel_batch returns True exactly when the status the provider's
\* cancel call answered with is cancelled; for completed and every other
\* status it returns False, and it raises nothing.
C7_CancelTrueIffCancelled ==
    cancel_answer # "none" =>
       cancel_outcome = [kind |-> "return",
                         value |-> (cancel_answer = "cancelled")]

\* The batch had completed before the cancel landed: False, no error.
C7_Witness ==
    /\ stable
    /\ cancel_answer = "completed"
    /\ provider = "completed"
    /\ cancel_outcome = [kind |-> "return", value |-> FALSE]

\* ------------------------------------------------- claims on RAGAssistant
\* C10: RAGAssistant.answer and answer_with_history short-circuit on an empty
\* context: when the context of a call is empty (no hit, or no hit with
\* text) the call returns the fixed answer with no source and an empty
\* context, and does not invoke the generation call.
C10_EmptyContextShortCircuits ==
    (rag_pc = "done" /\ rag_response.kind = "RAGResponse"
       /\ rag_context = <<>>) =>
       /\ ~rag_generated
       /\ rag_response.answer = NoInfoAnswer
       /\ rag_response.sources = <<>>
       /\ rag_response.context = <<>>

\* ---------------------------------------------------- claims on query_rag
\* Whether a part carries text in one of the three shapes.
PartHasText(part) ==
    /\ part.shape \in {"text", "text_value", "typed_value"}
    /\ \E k \in 1..Len(part.str) : part.str[k] \notin Whitespace

\* Whether no hit among the first TOP_CHUNKS of `data` carries text.
NoTextInTop(data) ==
    \A i \in 1..Len(data) :
       i <= TOP_CHUNKS =>
          \A k \in 1..Len(data[i].content) : ~PartHasText(data[i].content[k])

\* Whether the search of caller c's call under way (or just over) was
\* answered.
SearchAnswered(c) ==
    \/ query_pc[c] = "generating"
    \/ query_pc[c] = "done" /\ (query_response[c].kind = "QueryResponse"
                                  \/ query_generated[c])

\* C11: query_rag never invokes generation with an empty context: when no
\* hit among the first 10 of the search response yields text, it returns
\* success with the fixed answer, no sources and an empty context, and makes
\* no chat-completion call; the chat-completion call is made only with a
\* non-empty context.
C11_NoGenerationWithoutContext ==
    \A c \in QueryCallers :
       /\ (SearchAnswered(c) /\ NoTextInTop(query_data[c])) =>
             /\ query_pc[c] = "done"
             /\ ~query_generated[c]
             /\ query_response[c] =
                  [kind |-> "QueryResponse", success |-> TRUE,
                   answer |-> NoInfoAnswer, sources |-> <<>>,
                   context |-> <<>>]
       /\ query_generated[c] =>
             /\ query_context[c] # <<>>
             /\ query_messages[c][2].content
                  = QueryContextHeader \o query_context[c]

\* A call answered by the handler itself, the only hit with text being the
\* one after the first TOP_CHUNKS.
C11_Witness ==
    /\ query_pc[1] = "done"
    /\ ~query_generated[1]
    /\ query_response[1].kind = "QueryResponse"
    /\ query_response[1].answer = NoInfoAnswer
    /\ Len(query_data[1]) > TOP_CHUNKS
    /\ query_data[1][TOP_CHUNKS + 1].content # <<>>
    /\ PartHasText(query_data[1][TOP_CHUNKS + 1].content[1])

\* C18: source dedup law of query_rag: the returned sources have no
\* duplicates, are no more than the hits, and each of them is the filename
\* field of a hit of the search response or the placeholder "unknown".
C18_SourceDedupLaw ==
    \A c \in QueryCallers :
       query_response[c].kind = "QueryResponse" =>
          LET sources == query_response[c].sources IN
          /\ \A i, j \in 1..Len(sources) : i < j => sources[i] # sources[j]
          /\ Len(sources) <= Len(query_data[c])
          /\ \A i \in 1..Len(sources) :
                \/ sources[i] = <<"u", "n", "k", "n", "o", "w", "n">>
                \/ \E h \in 1..Len(query_data[c]) :
                      query_data[c][h].filename = sources[i]

\* ------------------------------------- claims on the text and the context
\* The text of a hit as the three shapes give it: the strings of the parts
\* of a recognised shape, joined with newlines, trimmed.
NormalizedText(hit) ==
    LET known == SelectSeq(hit.content, LAMBDA part :
                     part.shape \in {"text", "text_value", "typed_value"})
    IN Strip(Join(<<"\n">>, [k \in 1..Len(known) |-> known[k].str]))

\* C12: both extract_text_from_hit implementations take the text of every
\* content part of shape {"text": s}, {"text": {"value": s}} or {"type":
\* "text", "value": s}; the hit's text is these texts joined with newlines and
\* trimmed, and no hit built from these shapes makes them raise.
C12_ThreeShapesExtracted ==
    /\ Len(hit_texts) = Len(search_results)
    /\ \A i \in 1..Len(hit_texts) :
          hit_texts[i] = NormalizedText(search_results[i])
    /\ \A c \in QueryCallers :
          \A i \in 1..Len(query_texts[c]) :
             query_texts[c][i] = NormalizedText(query_data[c][i])

\* The places, in rank order, of the hits whose text is not empty; text(i)
\* is the text of hit i.
PlacesWithText(n, text(_)) ==
    SelectSeq([i \in 1..n |-> i], LAMBDA i : text(i) # <<>>)

\* Whether `block` ends with a newline and `text`.
EndsWithText(block, text) ==
    /\ Len(block) > Len(text)
    /\ SubSeq(block, Len(block) - Len(text), Len(block)) = <<"\n">> \o text

\* Whether `blocks` are one block per hit with text, in rank order.
OneBlockPerHitWithText(blocks, n, text(_)) ==
    LET places == PlacesWithText(n, text) IN
    /\ Len(blocks) = Len(places)
    /\ \A k \in 1..Len(places) : EndsWithText(blocks[k], text(places[k]))

\* C13: hits that yield no text are dropped silently: extract_context, and
\* the context loop of query_rag, emit exactly one block per hit of the
\* response whose extracted text is not empty, in rank order, nothing for
\* the other hits, and no hit makes them raise.
C13_TextlessHitsDropped ==
    /\ rag_response # [kind |-> "error", error |-> "TypeError"]
    /\ rag_pc \in {"generating", "done"} /\ rag_response.kind # "error" =>
          OneBlockPerHitWithText(rag_snippets, Len(search_results),
                                 LAMBDA i : hit_texts[i])
    /\ \A c \in QueryCallers :
          SearchAnswered(c) =>
             OneBlockPerHitWithText(query_chunks[c], Len(query_data[c]),
                 LAMBDA i : query_extract_text_from_hit(query_data[c][i]))

\* The label a block of extract_context starts with when numbered k.
StartsWithLabel(block, k) ==
    LET label == <<"[", "K", "B", "#">> \o IntStr(k) \o <<" ">> IN
    /\ Len(block) >= Len(label)
    /\ SubSeq(block, 1, Len(label)) = label

\* C14: extract_context numbers the surviving hits 1, 2, ... in rank order:
\* the k-th block of the output carries the label KB#k, also when hits
\* before it were dropped.
C14_BlocksNumberedConsecutively ==
    \A k \in 1..Len(rag_snippets) : StartsWithLabel(rag_snippets[k], k)

\* Whether extract_context returned in the call under way (or just over).
ContextExtracted ==
    /\ rag_pc \in {"generating", "done"}
    /\ rag_response.kind # "error" \/ rag_generated

\* Where block k begins in the blocks joined by the separator, less one.
RECURSIVE OffsetOfBlock(_, _)
OffsetOfBlock(blocks, k) ==
    IF k = 1 THEN 0
    ELSE OffsetOfBlock(blocks, k - 1) + Len(blocks[k - 1]) + Len(Separator)

\* C15: truncation acts on the joined string only: with J the blocks joined
\* by the separator, extract_context returns J when len(J) <= max_chars and
\* otherwise the first max_chars characters of J followed by the marker; the
\* result is at most max_chars + len(marker) long and every block that lies
\* within the first max_chars characters of J is in it as it was.
C15_TruncationOfTheJoinedString ==
    ContextExtracted =>
       LET J == Join(Separator, rag_snippets) IN
       /\ Len(J) <= max_context_chars => rag_context = J
       /\ Len(J) > max_context_chars =>
             rag_context = SubSeq(J, 1, max_context_chars) \o TruncationMarker
       /\ Len(rag_context) <= max_context_chars + Len(TruncationMarker)
       /\ \A k \in 1..Len(rag_snippets) :
             LET from == OffsetOfBlock(rag_snippets, k) IN
             from + Len(rag_snippets[k]) <= max_context_chars =>
                SubSeq(rag_context, from + 1, from + Len(rag_snippets[k]))
                   = rag_snippets[k]

\* A context of two blocks cut after the first one, which is kept whole.
C15_Witness ==
    /\ ContextExtracted
    /\ Len(rag_snippets) = 2
    /\ Len(rag_snippets[1]) <= max_context_chars
    /\ Len(Join(Separator, rag_snippets)) > max_context_chars
    /\ SubSeq(rag_context, 1, Len(rag_snippets[1])) = rag_snippets[1]
    /\ Len(rag_context) = max_context_chars + Len(TruncationMarker)

\* C16 as stated: the string returned by extract_context is never longer
\* than max_chars.
C16_ContextWithinBudget ==
    ContextExtracted => Len(rag_context) <= max_context_chars

\* C16: the string returned by extract_context is never longer than
\* max_chars plus the length of the truncation marker; it is longer than
\* max_chars only when the joined blocks were, and then by the marker.
C16_ContextWithinBudgetAndMarker ==
    ContextExtracted =>
       /\ Len(rag_context) <= max_context_chars + Len(TruncationMarker)
       /\ Len(rag_context) > max_context_chars =>
             /\ Len(Join(Separator, rag_snippets)) > max_context_chars
             /\ Len(rag_context) = max_context_chars + Len(TruncationMarker)

\* A context cut to a budget of no character at all: the marker alone.
C16_Witness ==
    /\ ContextExtracted
    /\ max_context_chars = 0
    /\ rag_snippets # <<>>
    /\ rag_context = TruncationMarker

\* ------------------------------------- claims on RAGAssistant's answers
\* C17: the sources returned by RAGAssistant.answer and answer_with_history
\* are deduplicated: each filename is in sources at most once, in the order
\* of its first occurrence among the hits.
C17_SourcesDeduplicated ==
    rag_response.kind = "RAGResponse" =>
       \A i, j \in 1..Len(rag_response.sources) :
          i < j => rag_response.sources[i] # rag_response.sources[j]

\* C19: in RAGAssistant.answer and answer_with_history, sources has exactly
\* one entry per hit of the search response: the hit's filename, or the
\* literal "unknown" for a hit without filename.
C19_OneSourcePerHitWithPlaceholder ==
    rag_response.kind = "RAGResponse" =>
       /\ Len(rag_response.sources) = Len(search_results)
       /\ \A i \in 1..Len(search_results) :
             rag_response.sources[i] =
                IF search_results[i].filename = Missing
                THEN <<"u", "n", "k", "n", "o", "w", "n">>
                ELSE search_results[i].filename

\* The two messages every generation request with a context begins with.
InstructionAndContext ==
    <<[role |-> "system", content |-> SystemPrompt],
      [role |-> "system", content |-> KBContextHeader \o rag_context]>>

\* The live question, as the message that ends a request.
LiveQuestion == <<[role |-> "user", content |-> rag_call.query]>>

BoundedExcerpt(c) ==
    IF Len(c) <= EXCERPT_CHARS THEN c
    ELSE SubSeq(c, 1, EXCERPT_CHARS) \o <<".", ".", ".">>

\* What C21 says of query_rag: the context of a generated answer is the
\* excerpt of the assembled context, of at most EXCERPT_CHARS + 3 characters.
QueryContextIsExcerpt ==
    \A c \in QueryCallers :
       (query_response[c].kind = "QueryResponse" /\ query_generated[c]) =>
          /\ query_response[c].context = BoundedExcerpt(query_context[c])
          /\ Len(query_response[c].context) <= EXCERPT_CHARS + 3

\* C21: the context returned to the caller is a bounded excerpt: query_rag
\* returns the assembled context c itself when len(c) <= 500, and its first
\* 500 characters followed by "..." when len(c) > 500, never more than 503
\* characters; the answer objects of RAGAssistant.answer carry a context
\* bounded the same way.
C21_ContextIsBoundedExcerpt ==
    /\ QueryContextIsExcerpt
    /\ rag_response.kind = "RAGResponse" =>
          /\ rag_response.context = BoundedExcerpt(rag_context)
          /\ Len(rag_response.context) <= EXCERPT_CHARS + 3

\* ------------------------------------------------- claims on the server
\* Caller c's call of query_rag begins in this step.
QueryBegins(c) ==
    /\ query_pc[c] \in {"idle", "done"}
    /\ \/ query_pc'[c] # query_pc[c]
       \/ query_request'[c] # query_request[c]
       \/ query_response'[c] # query_response[c]

\* C22: a query with no resolvable index id fails before any provider call:
\* query_rag uses request.vector_store_id, else the id in AppState; when
\* neither exists it fails with an error and issues neither the search nor
\* the generation; a search goes out only to the id so resolved.
C22_NoIdNoProviderCall ==
    [][\A c \in QueryCallers :
          QueryBegins(c) =>
             LET requested == query_request'[c].vector_store_id
                 id == IF requested \in {None, ""} THEN vector_store_id
                       ELSE requested
             IN
             /\ id \in {None, ""} =>
                   /\ query_pc'[c] = "done"
                   /\ query_response'[c].kind = "HTTPException"
                   /\ query_search'[c] = NoSearch
                   /\ ~query_generated'[c]
             /\ (id \notin {None, ""} /\ client # NoClient) =>
                   /\ query_pc'[c] = "searching"
                   /\ query_search'[c].url = id]_vars

\* A client is configured, no vector store id is in AppState nor in the
\* request, and the call has failed without a search.
C22_Witness ==
    /\ client # NoClient
    /\ vector_store_id = None
    /\ query_pc[1] = "done"
    /\ query_request[1].vector_store_id \in {None, ""}
    /\ query_response[1] = NoVectorStore
    /\ query_search[1] = NoSearch
    /\ ~query_generated[1]

\* The handlers that index the uploaded files.
IndexingHandlers == {"create_vector_store", "add_files_to_vector_store"}

\* The 'nothing to index' error of an indexing handler.
NothingToIndex(handler) ==
    HTTPException(400, IF handler = "create_vector_store"
                       THEN "No hay archivos subidos para indexar"
                       ELSE "No hay archivos nuevos para agregar")

\* C23: with no files recorded, indexing fails instead of proceeding
\* silently: whenever the uploaded-files registry is empty,
\* create_vector_store and add_files_to_vector_store fail with a 'nothing
\* to index' error and make no provider call at all.
C23_EmptyRegistryNothingToIndex ==
    (app_call.handler \in IndexingHandlers /\ uploaded_files = <<>>) =>
       /\ app_response = NothingToIndex(app_call.handler)
       /\ app_requests = <<>>

\* C23, amended: whenever the registry is empty, the two handlers fail with
\* status 400 and make no provider call, and no store was created by the
\* server; the error is the 'nothing to index' one when a client is
\* configured, and the missing api key otherwise.
C23_EmptyRegistryFailsWithoutProviderCall ==
    uploaded_files = <<>> =>
       /\ stores_created = 0
       /\ vector_store_id = None
       /\ app_call.handler \in IndexingHandlers =>
             /\ app_requests = <<>>
             /\ app_response =
                  IF client = NoClient
                  THEN HTTPException(400, "API key no configurada")
                  ELSE NothingToIndex(app_call.handler)

\* create_vector_store was called with a client and nothing uploaded.
C23_Witness ==
    /\ app_call.handler = "create_vector_store"
    /\ client # NoClient
    /\ uploaded_files = <<>>
    /\ app_response.kind = "HTTPException"
    /\ app_requests = <<>>

\* C24: AppState.uploaded_files is an append-only ordered list: every
\* successful upload_file appends exactly one entry at the end, also for a
\* filename uploaded before; no handler removes, rewrites or reorders
\* entries; list_files returns the entries in upload order.
C24_RegistryAppendOnly ==
    [][/\ files_created' # files_created =>
             /\ app_call'.handler = "upload_file"
             /\ app_response'.kind = "return"
             /\ uploaded_files' =
                  Append(uploaded_files,
                         [file_id |-> app_response'.file_id,
                          filename |-> app_call'.filename])
       /\ files_created' = files_created =>
             uploaded_files' = uploaded_files
       /\ (app_call'.handler = "list_files"
             /\ app_response'.kind = "return") =>
             app_response'.files = uploaded_files]_vars

\* The same filename uploaded twice, and the registry listed.
C24_Witness ==
    /\ Len(uploaded_files) = 2
    /\ uploaded_files[1].filename = uploaded_files[2].filename
    /\ uploaded_files[1].file_id = ProviderFileIds[1]
    /\ uploaded_files[2].file_id = ProviderFileIds[2]
    /\ app_call.handler = "list_files"
    /\ app_response.kind = "return"
    /\ app_response.files = uploaded_files

\* All that caller c's call of query_rag holds.
QueryCall(c) ==
    <<query_pc[c], query_request[c], query_search[c], query_data[c],
      query_failed[c], query_texts[c], query_chunks[c], query_sources[c],
      query_context[c], query_messages[c], query_generated[c],
      query_response[c]>>

\* The response of a call of query_rag, from what that call was given: the
\* search response, the lookups that failed, the model's reply.
ResponseFrom(data, failing, reply) ==
    LET hits == Prefix(data, TOP_CHUNKS)
        texts == [i \in 1..Len(hits) |-> query_extract_text_from_hit(hits[i])]
        context == QueryContext(Chunks(texts, 1))
    IN IF context = <<>>
       THEN [kind |-> "QueryResponse", success |-> TRUE,
             answer |-> NoInfoAnswer, sources |-> <<>>, context |-> <<>>]
       ELSE [kind |-> "QueryResponse", success |-> TRUE, answer |-> reply,
             sources |-> Sources(hits, texts, 1, failing, {}, <<>>),
             context |-> BoundedExcerpt(context)]

\* C25: query_rag is read-only on shared state: it leaves every AppState
\* field (client, api_key, vector_store_id, uploaded_files) unchanged in
\* every outcome, so with any interleaving of concurrent query_rag calls the
\* result of one call does not depend on the other calls: a step of one
\* call leaves the other calls as they were, and a call's response is the
\* one its own search response, lookups and reply give.
C25_QueryReadOnly ==
    [][/\ queryVars' # queryVars => appState' = appState
       /\ \A c \in QueryCallers :
             QueryCall(c)' # QueryCall(c) =>
                /\ \A d \in QueryCallers \ {c} : QueryCall(d)' = QueryCall(d)
                /\ query_response'[c].kind = "QueryResponse" =>
                      query_response'[c] =
                         ResponseFrom(query_data'[c], query_failed'[c],
                                      Reply)]_vars

\* Two calls under way at once, one waiting for the search and one for the
\* generation, after different requests.
C25_Witness ==
    /\ query_pc[1] = "generating"
    /\ query_pc[2] = "searching"
    /\ query_request[1] # query_request[2]
    /\ query_search[1].url # query_search[2].url

\* The hits, among those looked at, that have text.
HitsWithText(c) ==
    {i \in 1..Len(query_texts[c]) : query_texts[c][i] # <<>>}

\* What C26 says of the context and the answer: after a lookup that
\* raised, every hit with text has its chunk, and the generation request
\* has gone out.
FailedLookupKeepsQuery ==
    \A c \in QueryCallers :
       (SearchAnswered(c) /\ query_failed[c] # {}) =>
          /\ Cardinality(HitsWithText(c)) = Len(query_chunks[c])
          /\ \A i \in HitsWithText(c) :
                \E k \in 1..Len(query_chunks[c]) :
                   query_chunks[c][k] = Chunk(i, query_texts[c][i])
          /\ query_generated[c]

\* C26: in query_rag a failed filename lookup for one hit never aborts the
\* query: the hit's text still enters the context, the remaining hits are
\* processed, the answer is produced, and "unknown" is substituted as that
\* hit's source.
C26_FailedLookupGivesUnknown ==
    /\ FailedLookupKeepsQuery
    /\ \A c \in QueryCallers :
          (query_response[c].kind = "QueryResponse"
             /\ query_failed[c] # {}) =>
             \E k \in 1..Len(query_response[c].sources) :
                query_response[c].sources[k]
                  = <<"u", "n", "k", "n", "o", "w", "n">>

\* Whether no id occurs twice in file_ids.
NoRepeats(file_ids) ==
    \A i, j \in 1..Len(file_ids) : i < j => file_ids[i] # file_ids[j]

\* C27: for every sequence of upload_file, create_vector_store and
\* add_files_to_vector_store calls, the file_ids submitted in a batch
\* contain each file id at most once; add_files_to_vector_store on a store
\* created from the same registry does not resubmit ids already in the
\* store.
C27_BatchIdsUnique ==
    \A k \in 1..Len(app_requests) :
       app_requests[k].op = "file_batches.create" =>
          NoRepeats(app_requests[k].file_ids)

\* C28: AppState.vector_store_id changes only in create_vector_store and
\* add_files_to_vector_store, and only after the provider accepted the
\* batch creation; when the store creation, the file listing or the batch
\* creation raises, the handler reports an error and vector_store_id keeps
\* its value.
C28_IdSetAfterBatchAccepted ==
    [][/\ vector_store_id' # vector_store_id =>
             /\ app_call'.handler \in IndexingHandlers
             /\ app_response'.kind = "return"
             /\ app_response'.vector_store_id = vector_store_id'
             /\ app_requests'[Len(app_requests')] =
                  ProviderCall("file_batches.create", vector_store_id',
                               app_requests'[Len(app_requests')].file_ids)
       /\ app_response'.kind = "HTTPException" =>
             vector_store_id' = vector_store_id]_vars

\* A second create_vector_store whose batch creation raised after its store
\* was created: the first store's id is still the current one.
C28_Witness ==
    /\ app_call.handler = "create_vector_store"
    /\ app_response = HTTPException(500, "Error al crear Vector Store")
    /\ Len(app_requests) = 2
    /\ app_requests[2].vector_store_id = ProviderStoreIds[2]
    /\ vector_store_id = ProviderStoreIds[1]

\* The client is set exactly when the api key is, and it was built with
\* that key.
ClientMatchesKey ==
    /\ client = NoClient <=> api_key = None
    /\ client.api_key = api_key

\* C29: in every reachable state AppState.client is set if and only if
\* AppState.api_key is set, both from the same successful
\* configure_api_key call; a failed validation leaves both unchanged.
C29_ClientIffApiKey ==
    /\ []ClientMatchesKey
    /\ [][/\ <<client, api_key>>' # <<client, api_key>> =>
               /\ app_call'.handler = "configure_api_key"
               /\ app_response'.kind = "return"
               /\ api_key' = app_call'.api_key
          /\ app_response'.kind = "HTTPException" =>
               <<client, api_key>>' = <<client, api_key>>]_vars

\* A key is configured, and a later configure_api_key with another key has
\* failed its validation.
C29_Witness ==
    /\ app_call.handler = "configure_api_key"
    /\ app_call.api_key = "sk-1"
    /\ app_response.kind = "HTTPException"
    /\ api_key = "sk-2"
    /\ client = [api_key |-> "sk-2"]

\* ------------------------------------------------ claims on action_setup
\* C30: action_setup writes the vector store id and the uploaded file ids
\* to the saved config only after create_and_wait_batch returned a terminal
\* status, and for every terminal status; when no file was uploaded, or the
\* batch creation or the wait raises (a timeout among them), the saved
\* config is unchanged.
C30_ConfigSavedAfterTerminalStatus ==
    [][/\ saved_config' # saved_config =>
             /\ setup_pc = "indexing"
             /\ setup_outcome'.kind = "return"
             /\ setup_outcome'.status \in TerminalStatuses
       /\ (setup_pc = "indexing" /\ setup_outcome'.kind = "return") =>
             /\ setup_outcome'.status \in TerminalStatuses
             /\ saved_config'.vector_store_id = setup_vs_id
             /\ saved_config'.last_file_ids = setup_file_ids
             /\ setup_file_ids # <<>>
       /\ (setup_pc' = "done"
             /\ (setup_outcome'.kind # "return" \/ setup_file_ids' = <<>>)) =>
             saved_config' = saved_config]_vars

\* A run whose batch ended failed: the config holds its store and files.
C30_Witness ==
    /\ setup_pc = "done"
    /\ setup_outcome.kind = "return"
    /\ setup_outcome.status = "failed"
    /\ setup_file_ids # <<>>
    /\ saved_config = [vector_store_id |-> setup_vs_id,
                       last_file_ids |-> setup_file_ids]

=============================================================================
